---- MODULE Spec2Model ----
(***************************************************************************)
(* The maintenance state machine of perennial: the Maintenance class       *)
(* (patches, modified branches, the .maintenance.json record) and its      *)
(* commands.  One foreground command runs at a time (the operator awaits   *)
(* it); the bulk add wrappers start addNeededPatches without awaiting it,  *)
(* so their work continues in the background.                              *)
(***************************************************************************)
EXTENDS Integers, Sequences, FiniteSets, TLC

\* Number of commands the operator gets accepted in one behaviour: on a fresh
\* working copy, and on one that resumes a campaign.
MaxCmds == 3
MaxResumed == 2

\* Input alphabets.
PatchRepos == {"d1", "d2"}
Messages == {"m1", "m2"}
Shas == {"a", "b", "c"}

\* ReleaseBranch.getMaintenanceBranches(): the live release branches, in order.
ReleaseBranches ==
  << [repo |-> "simA", branch |-> "1.0", brands |-> <<"phet">>],
     [repo |-> "simB", branch |-> "1.0", brands |-> <<"phet">>] >>

\* (repo, branch) pairs the operator may name; the last one is no live release branch.
BranchInputs == {<<"simA", "1.0">>, <<"simB", "1.0">>, <<"simA", "9.9">>}

VARIABLES
  file,     \* .maintenance.json: [exists, doc]
  fg,       \* the awaited (foreground) command: idle, in progress, or just settled
  bg,       \* un-awaited addNeededPatches calls still running (a sequence of tasks)
  budget,   \* number of commands the operator can still get accepted
  log,      \* cherry-pick attempts of the applyPatches run in progress
  applied,  \* (repo, branch, patchRepo) cherry-picked in an earlier run and not linked again since
  prev,     \* the patch of the previous command when that was addAllNeededPatches, else "none"
  dirty,    \* repositories the command in progress checked out off master and has not restored
  declared, \* dependencies.json of each release branch: the commit declared per dependency
  task,     \* the build-server task in progress (build-server spec)
  load,     \* the puppeteerLoad calls of one caller (puppeteerLoad spec)
  listing   \* a run of print-missing-repos.sh (print-missing-repos spec)

\* The state of the maintenance campaign, and of the other programs
maintenance == <<file, fg, bg, budget, log, applied, prev, dirty, declared>>
tools == <<task, load, listing>>

vars == <<file, fg, bg, budget, log, applied, prev, dirty, declared, task, load, listing>>

----------------------------------------------------------------------------
\* Array helpers (Array.prototype.find / indexOf / includes / splice / push).

\* arr.indexOf( x ) + 1 (0 when absent)
IndexOf(s, x) ==
  IF \E i \in 1..Len(s) : s[i] = x
  THEN CHOOSE i \in 1..Len(s) : s[i] = x /\ \A j \in 1..(i - 1) : s[j] # x
  ELSE 0

Includes(s, x) == \E i \in 1..Len(s) : s[i] = x

\* arr.splice( i - 1, 1 )
RemoveAt(s, i) == [j \in 1..(Len(s) - 1) |-> IF j < i THEN s[j] ELSE s[j + 1]]

Range(s) == {s[i] : i \in 1..Len(s)}

----------------------------------------------------------------------------
\* Patch and ModifiedBranch objects.

\* new Patch( repo, message ): no shas yet
NewPatch(repo, message) == [repo |-> repo, message |-> message, shas |-> <<>>]

\* patch.serialize(): {repo, message, shas}
PatchSerialize(p) == [repo |-> p.repo, message |-> p.message, shas |-> p.shas]

\* Patch.deserialize
PatchDeserialize(d) == [repo |-> d.repo, message |-> d.message, shas |-> d.shas]

\* new ModifiedBranch( releaseBranch )
NewModifiedBranch(rb) ==
  [repo |-> rb.repo, branch |-> rb.branch, brands |-> rb.brands,
   neededPatches |-> <<>>, changedDependencies |-> <<>>,
   messages |-> <<>>, deployedVersion |-> "null"]

\* A changedDependencies object: its properties in insertion order, as
\* Object.keys() and JSON.stringify() enumerate them.
ObjectKeys(cd) == [i \in 1..Len(cd) |-> cd[i].key]

Keys(cd) == {cd[i].key : i \in 1..Len(cd)}

\* cd[ key ], for a key of cd
GetKey(cd, key) == cd[CHOOSE i \in 1..Len(cd) : cd[i].key = key].value

\* delete cd[ key ]
DeleteKey(cd, key) == SelectSeq(cd, LAMBDA e : e.key # key)

\* cd[ key ] = value
SetKey(cd, key, value) ==
  IF key \in Keys(cd)
  THEN [i \in 1..Len(cd) |-> IF cd[i].key = key THEN [key |-> key, value |-> value] ELSE cd[i]]
  ELSE Append(cd, [key |-> key, value |-> value])

\* Faulty variant of the re-linking: every entry is linked to the first patch.
FirstPatchObject(objs, repo) == IF Len(objs) > 0 THEN 1 ELSE 0

\* The patch object (its index in objs) that a serialized neededPatches entry
\* names: the first loaded patch with that repo, 0 (undefined) when there is none.
PatchObjectFor(objs, repo) ==
  IF \E i \in 1..Len(objs) : objs[i].repo = repo
  THEN CHOOSE i \in 1..Len(objs) :
         objs[i].repo = repo /\ \A j \in 1..(i - 1) : objs[j].repo # repo
  ELSE 0

\* modifiedBranch.serialize(): neededPatches are written as repo names
ModifiedBranchSerialize(b, objs) ==
  [repo |-> b.repo, branch |-> b.branch, brands |-> b.brands,
   neededPatches |-> [i \in 1..Len(b.neededPatches) |-> objs[b.neededPatches[i]].repo],
   changedDependencies |-> b.changedDependencies,
   messages |-> b.messages, deployedVersion |-> b.deployedVersion]

\* ModifiedBranch.deserialize( d, patches ): neededPatches re-linked to the
\* shared patch objects
ModifiedBranchDeserialize(d, objs) ==
  [repo |-> d.repo, branch |-> d.branch, brands |-> d.brands,
   neededPatches |-> [i \in 1..Len(d.neededPatches) |-> PatchObjectFor(objs, d.neededPatches[i])],
   changedDependencies |-> d.changedDependencies,
   messages |-> d.messages, deployedVersion |-> d.deployedVersion]

\* modifiedBranch.isUnused
IsUnused(b) == Len(b.neededPatches) = 0 /\ Keys(b.changedDependencies) = {}

\* get isReadyForReleaseCandidate / isReadyForProduction: no needed patch is
\* pending, and there are messages or changed dependencies to deploy.
IsReadyForReleaseCandidate(b) ==
  Len(b.neededPatches) = 0 /\ (Len(b.messages) > 0 \/ Keys(b.changedDependencies) # {})

IsReadyForProduction(b) ==
  Len(b.neededPatches) = 0 /\ (Len(b.messages) > 0 \/ Keys(b.changedDependencies) # {})

----------------------------------------------------------------------------
\* The Maintenance object: objs is the heap of Patch objects of this load
\* (a Patch is referred to by its index in objs), patches the array
\* this.patches of references, modifiedBranches the array this.modifiedBranches.

\* new Maintenance()
NewMaintenance == [objs |-> <<>>, patches |-> <<>>, modifiedBranches |-> <<>>]

EmptyDoc == [patches |-> <<>>, modifiedBranches |-> <<>>]

\* maintenance.serialize()
Serialize(m) ==
  [patches |-> [i \in 1..Len(m.patches) |-> PatchSerialize(m.objs[m.patches[i]])],
   modifiedBranches |->
     [i \in 1..Len(m.modifiedBranches) |-> ModifiedBranchSerialize(m.modifiedBranches[i], m.objs)]]

\* Maintenance.deserialize
Deserialize(doc) ==
  LET objs == [i \in 1..Len(doc.patches) |-> PatchDeserialize(doc.patches[i])]
  IN  [objs |-> objs,
       patches |-> [i \in 1..Len(objs) |-> i],
       modifiedBranches |->
         [i \in 1..Len(doc.modifiedBranches) |->
            ModifiedBranchDeserialize(doc.modifiedBranches[i], objs)]]

\* maintenance.save(): the record is overwritten with the serialized object
Save(m) == [exists |-> TRUE, doc |-> Serialize(m)]

\* Maintenance.load()
Load(f) == IF f.exists THEN Deserialize(f.doc) ELSE NewMaintenance

\* A load whose neededPatches entry names no loaded patch yields undefined
\* references, which no later step can use.
LoadOk(f) ==
  \/ ~f.exists
  \/ \A i \in 1..Len(f.doc.modifiedBranches) :
       \A j \in 1..Len(f.doc.modifiedBranches[i].neededPatches) :
         \E k \in 1..Len(f.doc.patches) :
           f.doc.patches[k].repo = f.doc.modifiedBranches[i].neededPatches[j]

\* maintenance.findPatch( repo ): the Patch object, 0 when the assert fails
FindPatch(m, repo) ==
  IF \E i \in 1..Len(m.patches) : m.objs[m.patches[i]].repo = repo
  THEN m.patches[CHOOSE i \in 1..Len(m.patches) :
                   /\ m.objs[m.patches[i]].repo = repo
                   /\ \A j \in 1..(i - 1) : m.objs[m.patches[j]].repo # repo]
  ELSE 0

\* Faulty variant of the lookup: nothing is ever found.
FindNoModifiedBranch(m, repo, branch) == 0

\* The index of the tracked ModifiedBranch for (repo, branch), 0 when untracked
FindModifiedBranch(m, repo, branch) ==
  IF \E i \in 1..Len(m.modifiedBranches) :
       m.modifiedBranches[i].repo = repo /\ m.modifiedBranches[i].branch = branch
  THEN CHOOSE i \in 1..Len(m.modifiedBranches) :
         /\ m.modifiedBranches[i].repo = repo /\ m.modifiedBranches[i].branch = branch
         /\ \A j \in 1..(i - 1) :
              ~(m.modifiedBranches[j].repo = repo /\ m.modifiedBranches[j].branch = branch)
  ELSE 0

\* The live release branch for (repo, branch), 0 when there is none
FindReleaseBranch(repo, branch) ==
  IF \E i \in 1..Len(ReleaseBranches) :
       ReleaseBranches[i].repo = repo /\ ReleaseBranches[i].branch = branch
  THEN CHOOSE i \in 1..Len(ReleaseBranches) :
         ReleaseBranches[i].repo = repo /\ ReleaseBranches[i].branch = branch
  ELSE 0

\* ensureModifiedBranch, second half: register a new ModifiedBranch
PushModifiedBranch(m, rb) ==
  [m EXCEPT !.modifiedBranches = Append(@, NewModifiedBranch(rb))]

\* tryRemovingModifiedBranch throws when the branch is unused: it reads
\* this.branches, which no Maintenance object has.
TryRemovingThrows(b) == IsUnused(b)

----------------------------------------------------------------------------
\* Command bookkeeping.  The operator issues a command at the prompt and
\* awaits it; pc "resolved" / "rejected" is the state in which its promise has
\* settled, and Prompt returns to the prompt.

\* loaded is the Maintenance object as load() returned it to the command in
\* progress; m is that object as the command has changed it since.
Idle ==
  [op |-> "idle", pc |-> "idle", args |-> <<>>, m |-> NewMaintenance,
   loaded |-> NewMaintenance,
   bi |-> 0, copy |-> <<>>, pi |-> 0, si |-> 0, head |-> <<>>]

\* The operator issues commands while budget > 0; budget counts the accepted
\* ones (a rejected command changed nothing).
AtPrompt == fg.op = "idle" /\ budget > 0

\* const maintenance = Maintenance.load() at the start of a command
Begun(op) == [Idle EXCEPT !.op = op, !.m = Load(file), !.loaded = Load(file)]

Settled(op, args, pc) == [Idle EXCEPT !.op = op, !.args = args, !.pc = pc]

\* The command is rejected before it changed anything.
Reject(op, args) ==
  /\ fg' = Settled(op, args, "rejected")
  /\ UNCHANGED <<file, bg, budget, log, prev, declared, tools, dirty, applied>>

\* A command is accepted.
Accept == budget > 0 /\ budget' = budget - 1

\* The (repo, branch, patchRepo) whose cherry-pick succeeded in the run logged
OkTriples(l) ==
  {<<l[i].repo, l[i].branch, l[i].patch>> : i \in {j \in 1..Len(l) : l[j].res = "ok"}}

Prompt ==
  /\ fg.pc \in {"resolved", "rejected"}
  /\ fg' = Idle
  /\ log' = <<>>
  /\ applied' = applied \cup OkTriples(log)
  /\ prev' = IF fg.op = "addAllNeededPatches" THEN fg.args[1] ELSE "none"
  /\ dirty' = {}
  /\ UNCHANGED <<file, bg, budget, declared, tools>>

TriplesOfPatch(patchRepo) == {t \in applied : t[3] = patchRepo}

----------------------------------------------------------------------------
\* Patch CRUD.

\* Faulty variants of the createPatch guard: no check; a check of the first patch only.
CreatePatchNeverThrows(m, repo) == FALSE

CreatePatchChecksFirstOnly(m, repo) ==
  Len(m.patches) > 0 /\ m.objs[m.patches[1]].repo = repo

\* createPatch: the loop that rejects a second patch for the repo
CreatePatchThrows(m, repo) ==
  \E i \in 1..Len(m.patches) : m.objs[m.patches[i]].repo = repo

\* maintenance.patches.push( new Patch( repo, message ) )
PushPatch(m, repo, message) ==
  [m EXCEPT !.objs = Append(@, NewPatch(repo, message)),
            !.patches = Append(@, Len(m.objs) + 1)]

CreatePatch(repo, message) ==
  /\ AtPrompt
  /\ LET m == Load(file) IN
       IF ~LoadOk(file) \/ CreatePatchThrows(m, repo)
       THEN Reject("createPatch", <<repo, message>>)
       ELSE /\ Accept
            /\ file' = Save(PushPatch(m, repo, message))
            /\ fg' = Settled("createPatch", <<repo, message>>, "resolved")
            /\ applied' = applied \ TriplesOfPatch(repo)
            /\ UNCHANGED <<bg, log, prev, declared, tools, dirty>>

\* Faulty variant of the removePatch guard: no check.
RemovePatchNeverThrows(m, patch) == FALSE

\* removePatch: the loop that rejects removing a patch some branch still needs
RemovePatchThrows(m, patch) ==
  \E i \in 1..Len(m.modifiedBranches) : Includes(m.modifiedBranches[i].neededPatches, patch)

\* Faulty variant of the splice of removePatch: the first patch is removed.
SpliceFirstPatch(m, patch) == [m EXCEPT !.patches = RemoveAt(@, 1)]

\* maintenance.patches.splice( maintenance.patches.indexOf( patch ), 1 )
SplicePatch(m, patch) == [m EXCEPT !.patches = RemoveAt(@, IndexOf(@, patch))]

RemovePatch(repo) ==
  /\ AtPrompt
  /\ LET m == Load(file)
         patch == FindPatch(m, repo)
     IN  IF ~LoadOk(file) \/ patch = 0 \/ RemovePatchThrows(m, patch)
         THEN Reject("removePatch", <<repo>>)
         ELSE /\ Accept
              /\ file' = Save(SplicePatch(m, patch))
              /\ fg' = Settled("removePatch", <<repo>>, "resolved")
              /\ UNCHANGED <<bg, log, prev, declared, tools, dirty, applied>>

\* patch.shas.push( sha )
PushSHA(m, patch, sha) == [m EXCEPT !.objs[patch].shas = Append(@, sha)]

AddPatchSHA(repo, sha) ==
  /\ AtPrompt
  /\ LET m == Load(file)
         patch == FindPatch(m, repo)
     IN  IF ~LoadOk(file) \/ patch = 0
         THEN Reject("addPatchSHA", <<repo, sha>>)
         ELSE /\ Accept
              /\ file' = Save(PushSHA(m, patch, sha))
              /\ fg' = Settled("addPatchSHA", <<repo, sha>>, "resolved")
              /\ UNCHANGED <<bg, log, prev, declared, tools, dirty, applied>>

\* patch.shas.splice( index, 1 )
SpliceSHA(m, patch, sha) ==
  [m EXCEPT !.objs[patch].shas = RemoveAt(@, IndexOf(@, sha))]

RemovePatchSHA(repo, sha) ==
  /\ AtPrompt
  /\ LET m == Load(file)
         patch == FindPatch(m, repo)
     IN  IF ~LoadOk(file) \/ patch = 0 \/ IndexOf(m.objs[patch].shas, sha) = 0
         THEN Reject("removePatchSHA", <<repo, sha>>)
         ELSE /\ Accept
              /\ file' = Save(SpliceSHA(m, patch, sha))
              /\ fg' = Settled("removePatchSHA", <<repo, sha>>, "resolved")
              /\ UNCHANGED <<bg, log, prev, declared, tools, dirty, applied>>

----------------------------------------------------------------------------
\* Needed-patch linkage.

\* modifiedBranch.neededPatches.push( patch ) on the k-th tracked branch
PushNeeded(m, k, patch) ==
  [m EXCEPT !.modifiedBranches[k].neededPatches = Append(@, patch)]

\* modifiedBranch.neededPatches.splice( index, 1 ) on the k-th tracked branch
SpliceNeeded(m, k, patch) ==
  [m EXCEPT !.modifiedBranches[k].neededPatches = RemoveAt(@, IndexOf(@, patch))]

\* addNeededPatch up to the await in ensureModifiedBranch: a tracked branch is
\* found at once; an untracked one waits for getMaintenanceBranches().
AddNeededPatch(repo, branch, patchRepo) ==
  /\ AtPrompt
  /\ LET m == Load(file)
         patch == FindPatch(m, patchRepo)
         k == FindModifiedBranch(m, repo, branch)
         args == <<repo, branch, patchRepo>>
     IN  IF ~LoadOk(file) \/ patch = 0
         THEN Reject("addNeededPatch", args)
         ELSE IF k # 0
         THEN /\ Accept
              /\ file' = Save(PushNeeded(m, k, patch))
              /\ fg' = Settled("addNeededPatch", args, "resolved")
              /\ applied' = applied \ {args}
              /\ UNCHANGED <<bg, log, prev, declared, tools, dirty>>
         ELSE /\ Accept
              /\ fg' = [Idle EXCEPT !.op = "addNeededPatch", !.pc = "ensure",
                                    !.m = m, !.loaded = m, !.args = args]
              /\ UNCHANGED <<file, bg, log, prev, declared, tools, dirty, applied>>

\* addNeededPatch after getMaintenanceBranches() has answered
AddNeededPatchEnsured ==
  /\ fg.op = "addNeededPatch" /\ fg.pc = "ensure"
  /\ LET r == FindReleaseBranch(fg.args[1], fg.args[2])
         patch == FindPatch(fg.m, fg.args[3])
         m1 == PushModifiedBranch(fg.m, ReleaseBranches[r])
     IN  IF r = 0
         THEN /\ fg' = Settled("addNeededPatch", fg.args, "rejected")
              /\ UNCHANGED <<file, applied>>
         ELSE /\ fg' = Settled("addNeededPatch", fg.args, "resolved")
              /\ file' = Save(PushNeeded(m1, Len(m1.modifiedBranches), patch))
              /\ applied' = applied \ {fg.args}
  /\ UNCHANGED <<bg, budget, log, prev, declared, tools, dirty>>

\* removeNeededPatch.  For an untracked (repo, branch) ensureModifiedBranch
\* either finds no release branch or registers a fresh ModifiedBranch that does
\* not need the patch: the command throws either way, before save().
RemoveNeededPatch(repo, branch, patchRepo) ==
  /\ AtPrompt
  /\ LET m == Load(file)
         patch == FindPatch(m, patchRepo)
         k == FindModifiedBranch(m, repo, branch)
         args == <<repo, branch, patchRepo>>
     IN  IF \/ ~LoadOk(file) \/ patch = 0 \/ k = 0
            \/ IndexOf(m.modifiedBranches[k].neededPatches, patch) = 0
            \/ TryRemovingThrows(SpliceNeeded(m, k, patch).modifiedBranches[k])
         THEN Reject("removeNeededPatch", args)
         ELSE /\ Accept
              /\ file' = Save(SpliceNeeded(m, k, patch))
              /\ fg' = Settled("removeNeededPatch", args, "resolved")
              /\ UNCHANGED <<bg, log, prev, declared, tools, dirty, applied>>

\* What the filter of a bulk add can answer for a release branch:
\* addAllNeededPatches passes async () => true, the Before/After filters ask
\* the repository graph (missingSHA / includesSHA).
\* The sha a Before/After command is given: it only reaches the filter,
\* whose answers are the repository graph's.
FilterShas == {"b"}

FilterAnswers(all) == IF all THEN {TRUE} ELSE BOOLEAN

\* The wrappers call addNeededPatches without awaiting or returning its
\* promise: load() and findPatch run inside the call, the rest continues in
\* the background, and the wrapper's own promise resolves whatever happens.
StartAddNeededPatches(op, args, all) ==
  /\ AtPrompt
  /\ fg' = Settled(op, args, "resolved")
  /\ LET m == Load(file)
         patch == FindPatch(m, args[1])
     IN  IF ~LoadOk(file) \/ patch = 0
         THEN UNCHANGED <<bg, budget>>
         ELSE /\ Accept
              /\ bg' = Append(bg, [m |-> m, patch |-> patch, all |-> all])
  /\ UNCHANGED <<file, log, prev, declared, tools, dirty, applied>>

AddAllNeededPatches(patchRepo) ==
  StartAddNeededPatches("addAllNeededPatches", <<patchRepo>>, TRUE)

AddNeededPatchesBefore(patchRepo, sha) ==
  StartAddNeededPatches("addNeededPatchesBefore", <<patchRepo, sha>>, FALSE)

AddNeededPatchesAfter(patchRepo, sha) ==
  StartAddNeededPatches("addNeededPatchesAfter", <<patchRepo, sha>>, FALSE)

\* Faulty variant of the loop body: the filter's answer is not looked at.
AddNeededPatchesBodyUnfiltered(m, rb, patch, needsPatch) ==
  LET k == FindModifiedBranch(m, rb.repo, rb.branch)
      m1 == IF k = 0 THEN PushModifiedBranch(m, rb) ELSE m
      k1 == IF k = 0 THEN Len(m1.modifiedBranches) ELSE k
  IN  IF ~Includes(m1.modifiedBranches[k1].neededPatches, patch)
      THEN PushNeeded(m1, k1, patch)
      ELSE m1

\* One iteration of the loop of addNeededPatches, over a release branch for
\* which the filter answered needsPatch.
AddNeededPatchesBody(m, rb, patch, needsPatch) ==
  IF ~needsPatch THEN m
  ELSE LET k == FindModifiedBranch(m, rb.repo, rb.branch)
           m1 == IF k = 0 THEN PushModifiedBranch(m, rb) ELSE m
           k1 == IF k = 0 THEN Len(m1.modifiedBranches) ELSE k
       IN  IF ~Includes(m1.modifiedBranches[k1].neededPatches, patch)
           THEN PushNeeded(m1, k1, patch)
           ELSE m1

\* The loop of addNeededPatches over the release branches i..Len, with the
\* filter's answers given per release branch.
RECURSIVE AddNeededPatchesLoop(_, _, _, _)
AddNeededPatchesLoop(m, patch, answers, i) ==
  IF i > Len(ReleaseBranches) THEN m
  ELSE AddNeededPatchesLoop(AddNeededPatchesBody(m, ReleaseBranches[i], patch, answers[i]),
                            patch, answers, i + 1)

\* The (repo, branch, patchRepo) linkages of patch in m
LinkedTriples(m, patch) ==
  {<<m.modifiedBranches[i].repo, m.modifiedBranches[i].branch, m.objs[patch].repo>> :
     i \in {j \in 1..Len(m.modifiedBranches) : Includes(m.modifiedBranches[j].neededPatches, patch)}}

\* A background addNeededPatches runs its loop and saves.  Between its load()
\* and its save() it works on its own Maintenance object only, so the loop is
\* one step; the commands that run while it awaits come between its start and
\* this step.
AddNeededPatchesFinish(t) ==
  /\ t \in 1..Len(bg)
  /\ \E answers \in [1..Len(ReleaseBranches) -> BOOLEAN] :
       /\ \A i \in 1..Len(ReleaseBranches) : answers[i] \in FilterAnswers(bg[t].all)
       /\ LET m1 == AddNeededPatchesLoop(bg[t].m, bg[t].patch, answers, 1)
          IN  /\ file' = Save(m1)
              /\ applied' = applied \ LinkedTriples(m1, bg[t].patch)
  /\ bg' = RemoveAt(bg, t)
  /\ UNCHANGED <<fg, budget, log, prev, declared, tools, dirty>>

\* removeNeededPatches calls filter( releaseBranch ) without awaiting it: the
\* promise it gets is truthy whatever the filter would answer, so every
\* tracked branch is taken to need removal.
NeedsRemoval(answer) == TRUE

\* removeNeededPatches throws (before save) when some tracked branch does not
\* need the patch, or becomes unused by the removal.
RemoveNeededPatchesThrows(m, patch) ==
  \E k \in 1..Len(m.modifiedBranches) :
    /\ \A answer \in BOOLEAN : NeedsRemoval(answer)
    /\ \/ IndexOf(m.modifiedBranches[k].neededPatches, patch) = 0
       \/ TryRemovingThrows(SpliceNeeded(m, k, patch).modifiedBranches[k])

\* The Maintenance object after the loop of removeNeededPatches
RemoveNeededPatchesResult(m, patch) ==
  [m EXCEPT !.modifiedBranches =
     [k \in 1..Len(m.modifiedBranches) |-> SpliceNeeded(m, k, patch).modifiedBranches[k]]]

\* removeNeededPatches has no await: it runs to its end inside the call.  The
\* wrappers neither await nor return its promise: their own promise resolves
\* whatever happens.
CallRemoveNeededPatches(op, args) ==
  /\ AtPrompt
  /\ fg' = Settled(op, args, "resolved")
  /\ LET m == Load(file)
         patch == FindPatch(m, args[1])
     IN  IF ~LoadOk(file) \/ patch = 0 \/ RemoveNeededPatchesThrows(m, patch)
         THEN UNCHANGED <<file, budget>>
         ELSE /\ Accept
              /\ file' = Save(RemoveNeededPatchesResult(m, patch))
  /\ UNCHANGED <<bg, log, prev, declared, tools, dirty, applied>>

RemoveNeededPatchesBefore(patchRepo, sha) ==
  CallRemoveNeededPatches("removeNeededPatchesBefore", <<patchRepo, sha>>)

RemoveNeededPatchesAfter(patchRepo, sha) ==
  CallRemoveNeededPatches("removeNeededPatchesAfter", <<patchRepo, sha>>)

\* Maintenance.reset(): new Maintenance().save()
Reset ==
  /\ AtPrompt
  /\ Accept
  /\ fg' = Settled("reset", <<>>, "resolved")
  /\ file' = Save(NewMaintenance)
  /\ UNCHANGED <<bg, log, prev, declared, tools, dirty, applied>>

----------------------------------------------------------------------------
\* applyPatches.  The external operations (gitCheckout, getDependencies,
\* gitCherryPick, gitRevParse) answer as the environment decides; a commit is
\* written as the sequence of shas cherry-picked on top of the commit the
\* release branch declares for the dependency.

\* The commit of a dependency a release branch declared when it was released
ReleasedSHA == <<>>

\* dependencies[ patchRepo ].sha of the release branch
DeclaredSHA(repo, branch, patchRepo) == declared[<<repo, branch>>][patchRepo]

\* gitCheckout( repo, ref ) for a ref other than master; gitCheckout( repo, 'master' )
CheckedOut(d, repo) == d \cup {repo}
CheckedOutMaster(d, repo) == d \ {repo}

\* HEAD after a successful cherry-pick of sha on top of head
CherryPicked(head, sha) == Append(head, sha)

Branch(st) == st.m.modifiedBranches[st.bi]
PatchOf(st) == st.m.objs[st.copy[st.pi]]

\* Faulty variant of the patch loop: after the last patch comes save().
EnterPatchWithoutCleanup(st) ==
  IF \E j \in st.pi..Len(st.copy) : Len(st.m.objs[st.copy[j]].shas) > 0
  THEN [st EXCEPT !.pc = "checkout", !.si = 0, !.head = <<>>,
                  !.pi = CHOOSE j \in st.pi..Len(st.copy) :
                           /\ Len(st.m.objs[st.copy[j]].shas) > 0
                           /\ \A i \in st.pi..(j - 1) : Len(st.m.objs[st.copy[i]].shas) = 0]
  ELSE [st EXCEPT !.pc = "save"]

\* The patch loop, from entry pi of the defensive copy on: patches without
\* shas are skipped; after the last one comes the checkout of master.
EnterPatch(st) ==
  IF \E j \in st.pi..Len(st.copy) : Len(st.m.objs[st.copy[j]].shas) > 0
  THEN [st EXCEPT !.pc = "checkout", !.si = 0, !.head = <<>>,
                  !.pi = CHOOSE j \in st.pi..Len(st.copy) :
                           /\ Len(st.m.objs[st.copy[j]].shas) > 0
                           /\ \A i \in st.pi..(j - 1) : Len(st.m.objs[st.copy[i]].shas) = 0]
  ELSE [st EXCEPT !.pc = "cleanup", !.si = 0, !.head = <<>>, !.pi = Len(st.copy) + 1]

\* The branch loop, from tracked branch `from` on: branches that need no patch
\* are skipped; after the last one comes save().
EnterBranch(st, from) ==
  IF \E j \in from..Len(st.m.modifiedBranches) : Len(st.m.modifiedBranches[j].neededPatches) > 0
  THEN LET b == CHOOSE j \in from..Len(st.m.modifiedBranches) :
                  /\ Len(st.m.modifiedBranches[j].neededPatches) > 0
                  /\ \A i \in from..(j - 1) : Len(st.m.modifiedBranches[i].neededPatches) = 0
       IN  EnterPatch([st EXCEPT !.bi = b, !.pi = 1,
                                 !.copy = st.m.modifiedBranches[b].neededPatches])
  ELSE [st EXCEPT !.pc = "save"]

\* Where a failing checkout stage can leave the working copies: a changed
\* dependency is checked out directly; else the release branch is checked out,
\* its dependencies are read and master is checked out again, and a failure
\* in between leaves the release branch checked out.
CheckoutFailures(st, d) ==
  IF PatchOf(st).repo \in Keys(Branch(st).changedDependencies)
  THEN {d}
  ELSE {d, CheckedOut(d, Branch(st).repo)}

\* The commit the cherry-picks of the current patch start from
BaseSHA(st) ==
  IF PatchOf(st).repo \in Keys(Branch(st).changedDependencies)
  THEN GetKey(Branch(st).changedDependencies, PatchOf(st).repo)
  ELSE DeclaredSHA(Branch(st).repo, Branch(st).branch, PatchOf(st).repo)

\* if ( !messages.includes( patch.message ) ) messages.push( patch.message )
PushMessage(messages, message) ==
  IF Includes(messages, message) THEN messages ELSE Append(messages, message)

\* The body of if ( cherryPickSuccess ), on the Maintenance object
RecordSuccess(st, currentSHA) ==
  [st.m EXCEPT
     !.modifiedBranches[st.bi].changedDependencies = SetKey(@, PatchOf(st).repo, currentSHA),
     !.modifiedBranches[st.bi].neededPatches = RemoveAt(@, IndexOf(@, st.copy[st.pi])),
     !.modifiedBranches[st.bi].messages = PushMessage(@, PatchOf(st).message)]

\* After the loop over patch.shas ended (break, or no sha left): next patch
NextPatch(st) == EnterPatch([st EXCEPT !.pi = st.pi + 1])

\* Faulty variant of the loop exit: an exhausted patch ends the patches of its branch.
AfterConflictLeavesBranch(st) ==
  IF st.si < Len(PatchOf(st).shas)
  THEN [st EXCEPT !.si = st.si + 1]
  ELSE [st EXCEPT !.pc = "cleanup", !.si = 0, !.head = <<>>, !.pi = Len(st.copy) + 1]

\* After a conflict: the next sha of the patch, or the next patch when none is left
AfterConflict(st) ==
  IF st.si < Len(PatchOf(st).shas)
  THEN [st EXCEPT !.si = st.si + 1]
  ELSE NextPatch(st)

\* Faulty variant of the catch block: no save().
ApplyPatchesCatchWithoutSave(m, f) == f

\* The record after the catch block of applyPatches: maintenance.save()
ApplyPatchesCatch(m, f) == Save(m)

Attempt(st, res) ==
  [repo |-> Branch(st).repo, branch |-> Branch(st).branch, patch |-> PatchOf(st).repo,
   pi |-> st.pi, si |-> st.si, sha |-> PatchOf(st).shas[st.si], res |-> res]

\* The run ends: resolved after save(), or rejected.
ApplyPatchesEnds(m, pc) ==
  fg' = Settled("applyPatches", <<>>, pc)

\* The run goes on at st, or saves and resolves when the branch loop is over.
ApplyPatchesGoesOn(st) ==
  IF st.pc = "save"
  THEN /\ file' = Save(st.m)
       /\ ApplyPatchesEnds(st.m, "resolved")
  ELSE /\ fg' = st
       /\ UNCHANGED file

ApplyPatches ==
  /\ AtPrompt
  /\ IF ~LoadOk(file)
     THEN Reject("applyPatches", <<>>)
     ELSE /\ Accept
          /\ ApplyPatchesGoesOn(EnterBranch(Begun("applyPatches"), 1))
          /\ UNCHANGED <<bg, log, prev, declared, tools, dirty, applied>>

\* The checkout of the commit to patch: changedDependencies[ patchRepo ] when
\* the branch has one, else the sha the release branch declares (looked up by
\* checking out the branch, reading its dependencies and checking out master).
ApplyPatchesCheckout ==
  /\ fg.op = "applyPatches" /\ fg.pc = "checkout"
  /\ \/ /\ fg' = [fg EXCEPT !.pc = "pick", !.si = 1, !.head = BaseSHA(fg)]
        /\ dirty' = CheckedOut(dirty, PatchOf(fg).repo)
        /\ UNCHANGED file
     \/ /\ file' = ApplyPatchesCatch(fg.m, file)
        /\ dirty' \in CheckoutFailures(fg, dirty)
        /\ ApplyPatchesEnds(fg.m, "rejected")
  /\ UNCHANGED <<bg, budget, log, prev, declared, tools, applied>>

\* gitCherryPick of the next sha of the patch, and gitRevParse after a success
ApplyPatchesCherryPick ==
  /\ fg.op = "applyPatches" /\ fg.pc = "pick"
  /\ \/ /\ log' = Append(log, Attempt(fg, "ok"))
        /\ ApplyPatchesGoesOn(
             NextPatch([fg EXCEPT !.m = RecordSuccess(fg, CherryPicked(fg.head, PatchOf(fg).shas[fg.si]))]))
     \/ /\ log' = Append(log, Attempt(fg, "conflict"))
        /\ ApplyPatchesGoesOn(AfterConflict(fg))
     \/ /\ log' = Append(log, Attempt(fg, "throw"))
        /\ file' = ApplyPatchesCatch(fg.m, file)
        /\ ApplyPatchesEnds(fg.m, "rejected")
  /\ UNCHANGED <<bg, budget, applied, prev, declared, tools, dirty>>

\* gitCheckout( modifiedBranch.repo, 'master' ) after the patches of a branch:
\* it is outside the try block, so its failure rejects without save().
ApplyPatchesCleanup ==
  /\ fg.op = "applyPatches" /\ fg.pc = "cleanup"
  /\ \/ /\ ApplyPatchesGoesOn(EnterBranch(fg, fg.bi + 1))
        /\ dirty' = CheckedOutMaster(dirty, Branch(fg).repo)
     \/ /\ ApplyPatchesEnds(fg.m, "rejected")
        /\ UNCHANGED <<file, dirty>>
  /\ UNCHANGED <<bg, budget, log, prev, declared, tools, applied>>

----------------------------------------------------------------------------
\* updateDependencies.  The external operations (checkoutTarget, getBranches,
\* gitCheckout, gitPull, merge, gitPush, npmUpdate, build, updateDependenciesJSON,
\* checkoutMaster) either succeed or throw.

\* The branch loop, from tracked branch `from` on: branches without changed
\* dependencies are skipped; after the last one comes save().  copy holds
\* changedRepos, the keys at the time the branch is entered.
UpdateEnterBranch(st, from) ==
  IF \E j \in from..Len(st.m.modifiedBranches) : Len(st.m.modifiedBranches[j].changedDependencies) > 0
  THEN LET b == CHOOSE j \in from..Len(st.m.modifiedBranches) :
                  /\ Len(st.m.modifiedBranches[j].changedDependencies) > 0
                  /\ \A i \in from..(j - 1) : Len(st.m.modifiedBranches[i].changedDependencies) = 0
       IN  [st EXCEPT !.pc = "propagate", !.bi = b, !.pi = 1,
                      !.copy = ObjectKeys(st.m.modifiedBranches[b].changedDependencies)]
  ELSE [st EXCEPT !.pc = "save"]

\* Faulty variant: the deployed version is kept.
PropagatedKeepsVersion(st) ==
  [st.m EXCEPT !.modifiedBranches[st.bi].changedDependencies = DeleteKey(@, st.copy[st.pi])]

\* delete modifiedBranch.changedDependencies[ dependency ];
\* modifiedBranch.deployedVersion = null
Propagated(st) ==
  [st.m EXCEPT !.modifiedBranches[st.bi].changedDependencies = DeleteKey(@, st.copy[st.pi]),
               !.modifiedBranches[st.bi].deployedVersion = "null"]

\* The repositories checkoutTarget( repo, branch ) checks out and
\* checkoutMaster( repo ) restores: the simulation and its declared dependencies
TargetRepos(repo) == {repo} \cup PatchRepos

\* The working copies after the stage of dependency pi succeeded: for the
\* first one checkoutTarget came before; the dependency is checked out at the
\* dependency branch (or at its sha, to create the branch).
PropagateCheckouts(st, d) ==
  CheckedOut(IF st.pi = 1 THEN d \cup TargetRepos(st.m.modifiedBranches[st.bi].repo) ELSE d,
             st.copy[st.pi])

\* Where a failure in that stage can leave them: nothing of the stage was
\* checked out yet, or all of it was
PropagateFailures(st, d) == {d, PropagateCheckouts(st, d)}

\* Faulty variant of the catch block: no save().
UpdateDependenciesCatchWithoutSave(m, f) == f

\* The record after the catch block of updateDependencies: maintenance.save()
UpdateDependenciesCatch(m, f) == Save(m)

\* The run goes on at st, or saves and resolves when the branch loop is over.
RunGoesOn(st) ==
  IF st.pc = "save"
  THEN /\ file' = Save(st.m)
       /\ fg' = Settled(st.op, <<>>, "resolved")
  ELSE /\ fg' = st
       /\ UNCHANGED file

UpdateDependencies ==
  /\ AtPrompt
  /\ IF ~LoadOk(file)
     THEN Reject("updateDependencies", <<>>)
     ELSE /\ Accept
          /\ RunGoesOn(UpdateEnterBranch(Begun("updateDependencies"), 1))
          /\ UNCHANGED <<bg, log, prev, declared, tools, dirty, applied>>

\* Faulty variant: the build follows the first propagated dependency.
NextDependencyBuildsAtOnce(st) ==
  [st EXCEPT !.m = Propagated(st), !.pi = st.pi + 1, !.pc = "build"]

\* The end of one iteration of the loop over changedRepos: the next
\* dependency, or after the last one npmUpdate and build
NextDependency(st) ==
  [st EXCEPT !.m = Propagated(st),
             !.pi = st.pi + 1,
             !.pc = IF st.pi < Len(st.copy) THEN "propagate" ELSE "build"]

\* One dependency of changedRepos is pushed to the dependency branch (for the
\* first one, after checkoutTarget of the release branch).
UpdateDependenciesPropagate ==
  /\ fg.op = "updateDependencies" /\ fg.pc = "propagate"
  /\ \/ /\ fg' = NextDependency(fg)
        /\ dirty' = PropagateCheckouts(fg, dirty)
        /\ UNCHANGED file
     \/ /\ file' = UpdateDependenciesCatch(fg.m, file)
        /\ dirty' \in PropagateFailures(fg, dirty)
        /\ fg' = Settled("updateDependencies", <<>>, "rejected")
  /\ UNCHANGED <<bg, budget, log, prev, declared, tools, applied>>

\* npmUpdate( 'chipper' ) when chipper changed, and build of the branch
UpdateDependenciesBuild ==
  /\ fg.op = "updateDependencies" /\ fg.pc = "build"
  /\ \/ /\ fg' = [fg EXCEPT !.pc = "json"]
        /\ UNCHANGED file
     \/ /\ file' = UpdateDependenciesCatch(fg.m, file)
        /\ fg' = Settled("updateDependencies", <<>>, "rejected")
  /\ UNCHANGED <<bg, budget, log, prev, dirty, declared, tools, applied>>

\* dependencies.json of the release branch after updateDependenciesJSON: the
\* changed dependencies are declared at the commits that were propagated
DependenciesJSON(st, d) ==
  LET b == st.loaded.modifiedBranches[st.bi]
  IN  [d EXCEPT ![<<b.repo, b.branch>>] =
         [r \in PatchRepos |->
            IF r \in Range(st.copy) THEN GetKey(b.changedDependencies, r) ELSE @[r]]]

\* updateDependenciesJSON( repo, brands, message, branch )
UpdateDependenciesJSON ==
  /\ fg.op = "updateDependencies" /\ fg.pc = "json"
  /\ \/ /\ fg' = [fg EXCEPT !.pc = "restore"]
        /\ declared' = DependenciesJSON(fg, declared)
        /\ UNCHANGED file
     \/ /\ file' = UpdateDependenciesCatch(fg.m, file)
        /\ fg' = Settled("updateDependencies", <<>>, "rejected")
        /\ UNCHANGED declared
  /\ UNCHANGED <<bg, budget, log, prev, dirty, tools, applied>>

\* checkoutMaster( repo, true ), and on to the next branch
UpdateDependenciesCheckoutMaster ==
  /\ fg.op = "updateDependencies" /\ fg.pc = "restore"
  /\ \/ /\ RunGoesOn(UpdateEnterBranch(fg, fg.bi + 1))
        /\ dirty' = dirty \ TargetRepos(fg.m.modifiedBranches[fg.bi].repo)
     \/ /\ file' = UpdateDependenciesCatch(fg.m, file)
        /\ UNCHANGED dirty
        /\ fg' = Settled("updateDependencies", <<>>, "rejected")
  /\ UNCHANGED <<bg, budget, log, prev, declared, tools, applied>>

\* checkoutBranch: ensureModifiedBranch with errorIfMissing throws for an
\* untracked (repo, branch) before anything is registered; for a tracked one
\* modifiedBranch.checkout() checks the branch out or throws.  Nothing is saved.
CheckoutBranch(repo, branch) ==
  /\ AtPrompt
  /\ LET m == Load(file)
         k == FindModifiedBranch(m, repo, branch)
     IN  IF ~LoadOk(file) \/ k = 0
         THEN Reject("checkoutBranch", <<repo, branch>>)
         ELSE /\ Accept
              /\ \/ /\ fg' = Settled("checkoutBranch", <<repo, branch>>, "resolved")
                    /\ dirty' = dirty \cup TargetRepos(repo)
                 \/ /\ fg' = Settled("checkoutBranch", <<repo, branch>>, "rejected")
                    /\ dirty' \in {dirty, dirty \cup TargetRepos(repo)}
              /\ UNCHANGED <<file, bg, log, prev, declared, tools, applied>>

----------------------------------------------------------------------------
\* deployReleaseCandidates and deployProduction.  rc() and production() either
\* return the deployed version or throw.

RcVersion == "rc"
ProductionVersion == "production"

\* Faulty variant of the gate: every tracked branch is deployed.
IsReadyAlways(op, b) == TRUE

\* if ( !modifiedBranch.isReadyForReleaseCandidate ) continue, and the same
\* with isReadyForProduction
IsReady(op, b) ==
  IF op = "deployReleaseCandidates" THEN IsReadyForReleaseCandidate(b) ELSE IsReadyForProduction(b)

\* The branch loop, from tracked branch `from` on: branches that are not ready
\* are skipped; after the last one comes save().
DeployEnterBranch(st, from) ==
  IF \E j \in from..Len(st.m.modifiedBranches) : IsReady(st.op, st.m.modifiedBranches[j])
  THEN [st EXCEPT !.pc = "deploy",
                  !.bi = CHOOSE j \in from..Len(st.m.modifiedBranches) :
                           /\ IsReady(st.op, st.m.modifiedBranches[j])
                           /\ \A i \in from..(j - 1) : ~IsReady(st.op, st.m.modifiedBranches[i])]
  ELSE [st EXCEPT !.pc = "save"]

\* Faulty variant of the catch block: no save().
DeployCatchWithoutSave(m, f) == f

\* The record after the catch block of a deploy: maintenance.save()
DeployCatch(m, f) == Save(m)

\* modifiedBranch.deployedVersion = version, after rc() returned
RcDeployed(st) ==
  [st.m EXCEPT !.modifiedBranches[st.bi].deployedVersion = RcVersion]

\* Faulty variant: the messages are kept.
ProductionDeployedKeepsMessages(st) ==
  [st.m EXCEPT !.modifiedBranches[st.bi].deployedVersion = ProductionVersion]

\* modifiedBranch.deployedVersion = version; modifiedBranch.messages = [],
\* after production() returned
ProductionDeployed(st) ==
  [st.m EXCEPT !.modifiedBranches[st.bi].deployedVersion = ProductionVersion,
               !.modifiedBranches[st.bi].messages = <<>>]

DeployReleaseCandidates ==
  /\ AtPrompt
  /\ IF ~LoadOk(file)
     THEN Reject("deployReleaseCandidates", <<>>)
     ELSE /\ Accept
          /\ RunGoesOn(DeployEnterBranch(Begun("deployReleaseCandidates"), 1))
          /\ UNCHANGED <<bg, log, prev, declared, tools, dirty, applied>>

\* rc( repo, branch, brands, true, messages ) for the branch
DeployReleaseCandidatesBranch ==
  /\ fg.op = "deployReleaseCandidates" /\ fg.pc = "deploy"
  /\ \/ RunGoesOn(DeployEnterBranch([fg EXCEPT !.m = RcDeployed(fg)], fg.bi + 1))
     \/ /\ file' = DeployCatch(fg.m, file)
        /\ fg' = Settled("deployReleaseCandidates", <<>>, "rejected")
  /\ UNCHANGED <<bg, budget, log, prev, declared, tools, dirty, applied>>

DeployProduction ==
  /\ AtPrompt
  /\ IF ~LoadOk(file)
     THEN Reject("deployProduction", <<>>)
     ELSE /\ Accept
          /\ RunGoesOn(DeployEnterBranch(Begun("deployProduction"), 1))
          /\ UNCHANGED <<bg, log, prev, declared, tools, dirty, applied>>

\* production( repo, branch, brands, true, messages ) for the branch
DeployProductionBranch ==
  /\ fg.op = "deployProduction" /\ fg.pc = "deploy"
  /\ \/ RunGoesOn(DeployEnterBranch([fg EXCEPT !.m = ProductionDeployed(fg)], fg.bi + 1))
     \/ /\ file' = DeployCatch(fg.m, file)
        /\ fg' = Settled("deployProduction", <<>>, "rejected")
  /\ UNCHANGED <<bg, budget, log, prev, declared, tools, dirty, applied>>

----------------------------------------------------------------------------
\* The record a behaviour starts from: none (a fresh working copy), or the one
\* an earlier campaign left.  Each is written as the result of the commands
\* that produce it.

\* createPatch d1 m1; addPatchSHA d1 a; addPatchSHA d1 b; addPatchSHA d1 c;
\* createPatch d2 message; addPatchSHA d2 a
Patched(message) ==
  PushSHA(PushPatch(PushSHA(PushSHA(PushSHA(PushPatch(NewMaintenance, "d1", "m1"),
                                            1, "a"), 1, "b"), 1, "c"),
                    "d2", message), 2, "a")

\* ... then addAllNeededPatches d2 (run to its end); addNeededPatch simA 1.0 d1:
\* simA needs d2 and d1, simB needs d2
Linked(message) ==
  PushNeeded(AddNeededPatchesLoop(Patched(message), 2, [i \in 1..Len(ReleaseBranches) |-> TRUE], 1),
             1, 1)

\* ... then addNeededPatch simA 1.0 d2
Relinked(message) == PushNeeded(Linked(message), 1, 2)

\* Linked( "m2" ), then applyPatches with every first cherry-pick succeeding
\* and deployReleaseCandidates: both branches are patched and deployed
Deployed ==
  LET picked == CherryPicked(ReleasedSHA, "a")
  IN  [Linked("m2") EXCEPT
         !.modifiedBranches[1] =
            [@ EXCEPT !.neededPatches = <<>>,
                      !.changedDependencies = SetKey(SetKey(<<>>, "d2", picked), "d1", picked),
                      !.messages = PushMessage(PushMessage(<<>>, "m2"), "m1"),
                      !.deployedVersion = RcVersion],
         !.modifiedBranches[2] =
            [@ EXCEPT !.neededPatches = <<>>,
                      !.changedDependencies = SetKey(<<>>, "d2", picked),
                      !.messages = PushMessage(<<>>, "m2"),
                      !.deployedVersion = RcVersion]]

NoRecord == [exists |-> FALSE, doc |-> EmptyDoc]

\* dependencies.json of the release branches as released
Released ==
  [b \in {<<ReleaseBranches[i].repo, ReleaseBranches[i].branch>> : i \in 1..Len(ReleaseBranches)} |->
     [r \in PatchRepos |-> ReleasedSHA]]

\* The other programs are not running.
NoTask == [pc |-> "none"]
NoLoad == [pc |-> "none"]
NoListing == [pc |-> "none"]

InitRecords ==
  {NoRecord, Save(Linked("m2")), Save(Relinked("m1")), Save(Deployed)}

Init ==
  /\ file \in InitRecords
  /\ fg = Idle
  /\ bg = <<>>
  /\ budget = IF file = NoRecord THEN MaxCmds ELSE MaxResumed
  /\ log = <<>>
  /\ applied = {}
  /\ prev = "none"
  /\ dirty = {}
  /\ declared = Released
  /\ task = NoTask
  /\ load = NoLoad
  /\ listing = NoListing

Next ==
  \/ Prompt
  \/ \E r \in PatchRepos, msg \in Messages : CreatePatch(r, msg)
  \/ \E r \in PatchRepos : RemovePatch(r)
  \/ \E r \in PatchRepos, s \in Shas : AddPatchSHA(r, s)
  \/ \E r \in PatchRepos, s \in Shas : RemovePatchSHA(r, s)
  \/ \E b \in BranchInputs, r \in PatchRepos : AddNeededPatch(b[1], b[2], r)
  \/ AddNeededPatchEnsured
  \/ \E b \in BranchInputs, r \in PatchRepos : RemoveNeededPatch(b[1], b[2], r)
  \/ \E r \in PatchRepos : AddAllNeededPatches(r)
  \/ \E r \in PatchRepos, s \in FilterShas : AddNeededPatchesBefore(r, s)
  \/ \E r \in PatchRepos, s \in FilterShas : AddNeededPatchesAfter(r, s)
  \/ \E t \in 1..MaxCmds : AddNeededPatchesFinish(t)
  \/ \E r \in PatchRepos, s \in FilterShas : RemoveNeededPatchesBefore(r, s)
  \/ \E r \in PatchRepos, s \in FilterShas : RemoveNeededPatchesAfter(r, s)
  \/ Reset
  \/ ApplyPatches
  \/ ApplyPatchesCheckout
  \/ ApplyPatchesCherryPick
  \/ ApplyPatchesCleanup
  \/ UpdateDependencies
  \/ UpdateDependenciesPropagate
  \/ UpdateDependenciesBuild
  \/ UpdateDependenciesJSON
  \/ UpdateDependenciesCheckoutMaster
  \/ \E b \in BranchInputs : CheckoutBranch(b[1], b[2])
  \/ DeployReleaseCandidates
  \/ DeployReleaseCandidatesBranch
  \/ DeployProduction
  \/ DeployProductionBranch

Spec == Init /\ [][Next]_vars

----------------------------------------------------------------------------
\* The build-server task (module.exports = async function( task, taskCallback )).
\* Every command below leaves the maintenance record and the other tools alone.

\* The maintenance variables while one of the tools runs
MaintenanceUnused ==
  /\ file = NoRecord /\ fg = Idle /\ bg = <<>> /\ budget = 0 /\ log = <<>>
  /\ applied = {} /\ prev = "none" /\ dirty = {} /\ declared = Released

\* constants.DEV_SERVER, constants.PRODUCTION_SERVER
Servers == {"dev", "production"}

\* constants.PHET_BRAND, constants.PHET_IO_BRAND
Brands == {"phet", "phet-io"}

\* The task and the environment it runs in.  repos has no own property
\* ("empty") or lists the sim and its dependencies ("listed").  key and option
\* are read by the function but declared nowhere in it: under 'use strict'
\* they are globals of the process, unbound ("unbound": reading throws a
\* ReferenceError) or bound by other code.  translator: the request carries a
\* userId and exactly one locale other than '*'.
TaskInputs ==
  [repos : {"empty", "listed"},
   key : {"unbound", "valid", "invalid"},
   simName : {"valid", "invalid"},
   version : {"valid", "invalid"},
   option : {"unbound", "rc", "other"},
   servers : SUBSET Servers,
   brands : SUBSET Brands,
   translator : BOOLEAN]

\* The two calls of afterDeploy: 1 is the callback handed to addTranslator,
\* 2 is the final `return afterDeploy()`
AfterDeploys == {1, 2}

\* The task when the function is called
NewTask(input) ==
  [pc |-> "validate", input |-> input, i |-> 0,
   promise |-> "pending", version |-> "unset",
   callbacks |-> 0, masters |-> 0, onMaster |-> TRUE,
   sent |-> FALSE, failed |-> "none",
   afterDeploy |-> [k \in AfterDeploys |-> "none"]]

Guarded(name) == [kind |-> "guarded", name |-> name]
Exec(name) == [kind |-> "exec", name |-> name]
Bare(name) == [kind |-> "bare", name |-> name]

\* lines 213-221
DevSteps(input) ==
  IF "dev" \notin input.servers THEN <<>>
  ELSE IF "phet" \in input.brands THEN <<Bare("devDeploy")>>
  ELSE IF "phet-io" \in input.brands
       THEN <<Bare("writePhetioHtaccess"), Bare("devDeploy")>>
       ELSE <<>>

\* lines 223-250
ProductionSteps(input) ==
  IF "production" \notin input.servers THEN <<>>
  ELSE <<Bare("mkVersionDir"), Exec("cp -r")>>
       \o (IF "phet" \in input.brands
           THEN <<Bare("writePhetHtaccess"), Bare("createTranslationsXML"),
                  Bare("notifyServer"), Bare("addToRosetta")>>
                \o (IF input.translator
                    THEN <<[kind |-> "translator", name |-> "addTranslator"]>>
                    ELSE <<>>)
           ELSE <<Bare("writePhetioHtaccess wrappers")>>)

\* The statements of lines 176-252 in order
Steps(input) ==
  <<Guarded("mkdirSync writeFileSync"),
    Exec("git pull"), Exec("npm prune"), Exec("npm update"),
    Exec("clone-missing-repos.sh"),
    Guarded("pullMaster"),
    Exec("grunt checkout-shas"),
    [kind |-> "sha", name |-> "git checkout sha"],
    Exec("npm prune chipper"), Exec("npm update chipper"),
    Exec("npm prune sim"), Exec("npm update sim"),
    Guarded("getLocales"),
    Exec("grunt build-for-server")>>
  \o DevSteps(input) \o ProductionSteps(input)
  \o <<[kind |-> "send", name |-> "res.send"]>>

\* taskCallback( ... )
TaskCallback(t) == [t EXCEPT !.callbacks = @ + 1]

\* execute( 'grunt checkout-master-all', [], constants.PERENNIAL ) has run
CheckoutMasterAll(t, ok) ==
  [t EXCEPT !.masters = @ + 1, !.onMaster = IF ok THEN TRUE ELSE @]

\* The async function rejects: an exception no handler caught
Rejects(t) == [t EXCEPT !.pc = "settled", !.promise = "rejected"]

\* return abortBuild( ... ): up to its await of checkout-master-all
EnterAbortBuild(t) == [t EXCEPT !.pc = "abort"]

\* The step the task is at
Step(t) == Steps(t.input)[t.i]

\* The steps that can fail, by name
StepNames ==
  UNION {{Steps(input)[i].name : i \in 1..Len(Steps(input))} : input \in TaskInputs}
    \ {"res.send"}

\* The statement after the current step; after res.send it is
\* `return afterDeploy()`, which starts the command of line 171
Proceed(t) ==
  IF t.i < Len(Steps(t.input))
  THEN [t EXCEPT !.i = @ + 1]
  ELSE [t EXCEPT !.pc = "afterDeploy", !.afterDeploy[2] = "master"]

\* The current step has failed
Failed(t) == [t EXCEPT !.failed = IF @ = "none" THEN Step(t).name ELSE @]

\* lines 99-159: the synchronous validation of the parameters
ValidateParameters ==
  /\ task.pc = "validate"
  /\ LET in == task.input
     IN  task' =
           IF in.repos = "listed" /\ in.key = "unbound" THEN Rejects(task)
           ELSE IF in.repos = "listed" /\ in.key = "invalid" THEN EnterAbortBuild(task)
           ELSE IF in.simName = "invalid" THEN EnterAbortBuild(task)
           ELSE IF in.version = "invalid" THEN EnterAbortBuild(task)
           ELSE IF in.option = "unbound" THEN Rejects(task)
           ELSE [task EXCEPT !.pc = "step", !.i = 1,
                             !.version = IF in.option = "rc" THEN "suffixed" ELSE "stripped"]
  /\ UNCHANGED <<maintenance, load, listing>>

\* try { ... } catch { return abortBuild( ... ) }: lines 176-182, 189-194, 201-206
GuardedStep ==
  /\ task.pc = "step" /\ Step(task).kind = "guarded"
  /\ \E ok \in BOOLEAN :
       task' = IF ok THEN Proceed(task) ELSE EnterAbortBuild(Failed(task))
  /\ UNCHANGED <<maintenance, load, listing>>

\* await execWithAbort( command, dir ) for a command other than
\* 'grunt checkout-master-all' (lines 71-85)
ExecWithAbort ==
  /\ task.pc = "step" /\ Step(task).kind = "exec"
  /\ \E ok \in BOOLEAN :
       task' = IF ok
               THEN Proceed([task EXCEPT !.onMaster =
                               IF Step(task).name = "grunt checkout-shas" THEN FALSE ELSE @])
               ELSE EnterAbortBuild(Failed(task))
  /\ UNCHANGED <<maintenance, load, listing>>

\* line 196: the argument repos[ simName ].sha is evaluated before
\* execWithAbort is called and outside any try; when repos has no entry for
\* the sim it throws a TypeError and the command is not run
ExecWithAbortSha ==
  /\ task.pc = "step" /\ Step(task).kind = "sha"
  /\ \E ok \in BOOLEAN :
       task' = IF task.input.repos = "empty" THEN Rejects(task)
               ELSE IF ok THEN Proceed(task)
               ELSE EnterAbortBuild(Failed(task))
  /\ UNCHANGED <<maintenance, load, listing>>

\* An await outside any try: lines 215, 218, 219, 232, 236-239, 248
BareStep ==
  /\ task.pc = "step" /\ Step(task).kind = "bare"
  /\ \E ok \in BOOLEAN :
       task' = IF ok THEN Proceed(task) ELSE Rejects(Failed(task))
  /\ UNCHANGED <<maintenance, load, listing>>

\* line 244: await addTranslator( localesArray[ 0 ], afterDeploy ).
\* addTranslator may or may not call the callback it is given
AddTranslator ==
  /\ task.pc = "step" /\ Step(task).kind = "translator"
  /\ \E ok \in BOOLEAN, calls \in BOOLEAN :
       LET t == [task EXCEPT !.afterDeploy[1] = IF calls THEN "master" ELSE @]
       IN  task' = IF ok THEN Proceed(t) ELSE Rejects(Failed(t))
  /\ UNCHANGED <<maintenance, load, listing>>

\* lines 252-253: res.send( ... ); return afterDeploy()
ResSend ==
  /\ task.pc = "step" /\ Step(task).kind = "send"
  /\ task' = Proceed([task EXCEPT !.sent = TRUE])
  /\ UNCHANGED <<maintenance, load, listing>>

\* abortBuild (lines 91-97) called by the function or by an execWithAbort it
\* awaits: checkout master everywhere, then taskCallback( err ) and reject.
\* When checkout-master-all fails the await throws and nothing is called.
AbortBuild ==
  /\ task.pc = "abort"
  /\ \E ok \in BOOLEAN :
       task' = Rejects(IF ok THEN TaskCallback(CheckoutMasterAll(task, TRUE))
                       ELSE CheckoutMasterAll(task, FALSE))
  /\ UNCHANGED <<maintenance, load, listing>>

\* The promise of afterDeploy call k settles; the function returned the
\* promise of call 2
AfterDeploySettles(t, k, outcome) ==
  LET u == [t EXCEPT !.afterDeploy[k] = IF outcome = "resolved" THEN "done" ELSE "failed"]
  IN  IF k = 2 THEN [u EXCEPT !.pc = "settled", !.promise = outcome] ELSE u

\* line 171 with lines 76-80: when 'grunt checkout-master-all' fails,
\* execWithAbort calls taskCallback, rejects a promise nobody holds and
\* returns, so afterDeploy goes on
AfterDeployCheckoutMaster(k) ==
  /\ task.afterDeploy[k] = "master"
  /\ \E ok \in BOOLEAN :
       task' = [(IF ok THEN CheckoutMasterAll(task, TRUE)
                 ELSE TaskCallback(CheckoutMasterAll(task, FALSE)))
                EXCEPT !.afterDeploy[k] = "rm"]
  /\ UNCHANGED <<maintenance, load, listing>>

\* lines 172-173: rm -rf of the build directory, then taskCallback()
AfterDeployRemove(k) ==
  /\ task.afterDeploy[k] = "rm"
  /\ \E ok \in BOOLEAN :
       task' = IF ok THEN AfterDeploySettles(TaskCallback(task), k, "resolved")
               ELSE [task EXCEPT !.afterDeploy[k] = "abort"]
  /\ UNCHANGED <<maintenance, load, listing>>

\* abortBuild called by the execWithAbort of line 172
AfterDeployAbortBuild(k) ==
  /\ task.afterDeploy[k] = "abort"
  /\ \E ok \in BOOLEAN :
       task' = AfterDeploySettles(
                 IF ok THEN TaskCallback(CheckoutMasterAll(task, TRUE))
                 ELSE CheckoutMasterAll(task, FALSE), k, "rejected")
  /\ UNCHANGED <<maintenance, load, listing>>

InitBuild ==
  /\ MaintenanceUnused
  /\ task \in {NewTask(input) : input \in TaskInputs}
  /\ load = NoLoad
  /\ listing = NoListing

NextBuild ==
  \/ ValidateParameters
  \/ GuardedStep
  \/ ExecWithAbort
  \/ ExecWithAbortSha
  \/ BareStep
  \/ AddTranslator
  \/ ResSend
  \/ AbortBuild
  \/ \E k \in AfterDeploys : AfterDeployCheckoutMaster(k)
  \/ \E k \in AfterDeploys : AfterDeployRemove(k)
  \/ \E k \in AfterDeploys : AfterDeployAbortBuild(k)

SpecBuild == InitBuild /\ [][NextBuild]_vars

\* Node runs every continuation that is ready: a task that can take a step
\* takes one
SpecBuildLive == SpecBuild /\ WF_vars(NextBuild)

\* Nothing of the task is left to run
TaskOver ==
  task.pc = "settled" /\ \A k \in AfterDeploys : task.afterDeploy[k] \in {"none", "done", "failed"}

----------------------------------------------------------------------------
\* puppeteerLoad( url, options ) of js/common/puppeteerLoad.js

\* Calls of puppeteerLoad a caller makes one after the other
MaxLoads == 2

\* Before the first call: the caller holds a persistent browser it may pass
\* as options.browser
NoCall ==
  [pc |-> "idle", calls |-> 0, persistent |-> "open",
   hasBrowser |-> FALSE, evaluate |-> FALSE, launched |-> "none", page |-> "none",
   loaded |-> FALSE, handler |-> "idle", timer |-> "idle",
   promise |-> "pending", result |-> "none"]

\* The browser the call works with
BrowserOpen(l) ==
  IF l.hasBrowser THEN l.persistent = "open" ELSE l.launched = "open"

\* resolve( value ): only the first call settles the promise
Resolve(l, value) ==
  IF l.promise = "pending" THEN [l EXCEPT !.promise = value] ELSE l

\* The call throws: the async function rejects
LoadThrows(l) == [l EXCEPT !.pc = "thrown"]

\* lines 24-42: the options, hasBrowser, and the start of the launch
PuppeteerLoad(browser, evaluate) ==
  /\ load.pc \in {"idle", "returned", "thrown"}
  /\ load.calls < MaxLoads
  /\ load' = [NoCall EXCEPT !.calls = load.calls + 1,
                            !.persistent = load.persistent,
                            !.hasBrowser = browser,
                            !.evaluate = evaluate,
                            !.pc = IF browser THEN "newPage" ELSE "launch"]
  /\ UNCHANGED <<maintenance, task, listing>>

\* line 42: await puppeteer.launch( launchOptions )
Launch ==
  /\ load.pc = "launch"
  /\ \E ok \in BOOLEAN :
       load' = IF ok THEN [load EXCEPT !.launched = "open", !.pc = "newPage"]
               ELSE LoadThrows(load)
  /\ UNCHANGED <<maintenance, task, listing>>

\* lines 44-72: the page, its handlers and the timer
NewPage ==
  /\ load.pc = "newPage"
  /\ \E ok \in BOOLEAN :
       load' = IF ok /\ BrowserOpen(load)
               THEN [load EXCEPT !.page = "open", !.timer = "sleeping", !.pc = "goto"]
               ELSE LoadThrows(load)
  /\ UNCHANGED <<maintenance, task, listing>>

\* lines 74-76: await page.goto( url, ... ), which throws when the
\* navigation fails or times out
Goto ==
  /\ load.pc = "goto"
  /\ \E ok \in BOOLEAN :
       load' = IF ok THEN [load EXCEPT !.pc = "await"] ELSE LoadThrows(load)
  /\ UNCHANGED <<maintenance, task, listing>>

\* lines 53-55: the page fires 'load'
OnLoad ==
  /\ load.pc \in {"goto", "await"} /\ load.page = "open" /\ load.handler = "idle"
  /\ load' = [load EXCEPT !.loaded = TRUE, !.handler = "sleeping"]
  /\ UNCHANGED <<maintenance, task, listing>>

\* line 56: after waitAfterLoad, resolve with the evaluation or null;
\* page.evaluate may throw, and then resolve is not called
OnLoadResolve ==
  /\ load.handler = "sleeping"
  /\ \E ok \in BOOLEAN :
       load' = IF load.evaluate /\ load.page = "open"
               THEN IF ok THEN [Resolve(load, "value") EXCEPT !.handler = "done"]
                    ELSE [load EXCEPT !.handler = "done"]
               ELSE [Resolve(load, "null") EXCEPT !.handler = "done"]
  /\ UNCHANGED <<maintenance, task, listing>>

\* lines 58-65: the page fires 'error' or 'pageerror'
OnError ==
  /\ load.pc \in {"goto", "await"} /\ load.page = "open" /\ load.promise = "pending"
  /\ load' = Resolve(load, "Error")
  /\ UNCHANGED <<maintenance, task, listing>>

\* lines 66-72: allowedTimeToLoad has passed
OnTimeout ==
  /\ load.timer = "sleeping"
  /\ load' = [(IF load.loaded THEN load ELSE Resolve(load, "Error")) EXCEPT !.timer = "done"]
  /\ UNCHANGED <<maintenance, task, listing>>

\* lines 77-78: const result = await promise; await page.close()
ClosePage ==
  /\ load.pc = "await" /\ load.promise # "pending"
  /\ load' = [load EXCEPT !.result = load.promise, !.page = "closed", !.pc = "closeBrowser"]
  /\ UNCHANGED <<maintenance, task, listing>>

\* lines 80-84: if ( hasBrowser ) { await browser.close(); } return result
CloseBrowser ==
  /\ load.pc = "closeBrowser"
  /\ load' = [load EXCEPT !.persistent = IF load.hasBrowser THEN "closed" ELSE @,
                          !.pc = "returned"]
  /\ UNCHANGED <<maintenance, task, listing>>

InitLoad ==
  /\ MaintenanceUnused
  /\ task = NoTask
  /\ load = NoCall
  /\ listing = NoListing

NextLoad ==
  \/ \E browser \in BOOLEAN, evaluate \in BOOLEAN : PuppeteerLoad(browser, evaluate)
  \/ Launch
  \/ NewPage
  \/ Goto
  \/ OnLoad
  \/ OnLoadResolve
  \/ OnError
  \/ OnTimeout
  \/ ClosePage
  \/ CloseBrowser

SpecLoad == InitLoad /\ [][NextLoad]_vars

----------------------------------------------------------------------------
\* bin/print-missing-repos.sh.  A name is a number, its rank in sort's order.

\* Names a line of the list file or a directory entry can be
MaxNames == 2

\* Lines of the list file
MaxLines == 3

Names == 1..MaxNames

\* A line of the list file: a name, with or without a carriage return
\* before the newline
Lines == [name : Names, cr : BOOLEAN]

\* All sequences over S of length at most n
SeqUpTo(S, n) == UNION {[1..k -> S] : k \in 0..n}

\* tr -d '\015': the carriage returns are deleted and the name remains
TrDeleteCR(lines) == [i \in 1..Len(lines) |-> lines[i].name]

RECURSIVE Insert(_, _)
\* sort, one line at a time: x put before the first greater line of the sorted s
Insert(s, x) ==
  IF s = <<>> THEN <<x>>
  ELSE IF x <= Head(s) THEN <<x>> \o s
  ELSE <<Head(s)>> \o Insert(Tail(s), x)

RECURSIVE Sort(_)
\* sort
Sort(s) == IF s = <<>> THEN <<>> ELSE Insert(Sort(Tail(s)), Head(s))

\* Line i of s starts a run of equal adjacent lines / ends one
RunStarts(s, i) == i = 1 \/ s[i - 1] # s[i]
RunEnds(s, i) == i = Len(s) \/ s[i + 1] # s[i]

RECURSIVE SelectRuns(_, _, _)
\* The first line of every run of s from line i on, for the runs that are
\* of one line (single) or of several (~single)
SelectRuns(s, i, single) ==
  IF i > Len(s) THEN <<>>
  ELSE (IF RunStarts(s, i) /\ (RunEnds(s, i) <=> single) THEN <<s[i]>> ELSE <<>>)
       \o SelectRuns(s, i + 1, single)

\* uniq -u: only the lines that are not repeated
UniqU(s) == SelectRuns(s, 1, TRUE)

\* uniq -d: one copy of each repeated line
UniqD(s) == SelectRuns(s, 1, FALSE)

\* The script started on a list file and a working copy (line 17)
NewListing(list, dir) ==
  [pc |-> "cat", file |-> list, dir |-> dir,
   localRepos |-> <<>>, workingFiles |-> <<>>, missingFiles |-> <<>>, out |-> <<>>]

\* line 20: localRepos=`cat ./perennial/data/${filename} | tr -d '\015'`
LocalRepos ==
  /\ listing.pc = "cat"
  /\ listing' = [listing EXCEPT !.localRepos = TrDeleteCR(listing.file), !.pc = "ls"]
  /\ UNCHANGED <<maintenance, task, load>>

\* line 21: workingFiles=`ls -1 .`
WorkingFiles ==
  /\ listing.pc = "ls"
  /\ listing' = [listing EXCEPT
                   !.workingFiles = Sort(CHOOSE q \in [1..Cardinality(listing.dir) -> listing.dir] :
                                           Range(q) = listing.dir),
                   !.pc = "missing"]
  /\ UNCHANGED <<maintenance, task, load>>

\* line 25: missingFiles=`echo -e "${localRepos}\n${workingFiles}" | sort | uniq -u`
MissingFiles ==
  /\ listing.pc = "missing"
  /\ listing' = [listing EXCEPT
                   !.missingFiles = UniqU(Sort(listing.localRepos \o listing.workingFiles)),
                   !.pc = "print"]
  /\ UNCHANGED <<maintenance, task, load>>

\* line 29: echo -e "${localRepos}\n${missingFiles}" | sort | uniq -d
PrintMissing ==
  /\ listing.pc = "print"
  /\ listing' = [listing EXCEPT
                   !.out = UniqD(Sort(listing.localRepos \o listing.missingFiles)),
                   !.pc = "done"]
  /\ UNCHANGED <<maintenance, task, load>>

InitListing ==
  /\ MaintenanceUnused
  /\ task = NoTask
  /\ load = NoLoad
  /\ listing \in {NewListing(list, dir) : list \in SeqUpTo(Lines, MaxLines), dir \in SUBSET Names}

NextListing ==
  \/ LocalRepos
  \/ WorkingFiles
  \/ MissingFiles
  \/ PrintMissing

SpecListing == InitListing /\ [][NextListing]_vars

----------------------------------------------------------------------------
\* Properties.

DocPatchRepos(doc) == {doc.patches[k].repo : k \in 1..Len(doc.patches)}

DocNeeds(doc, r) ==
  \E i \in 1..Len(doc.modifiedBranches) : Includes(doc.modifiedBranches[i].neededPatches, r)

InRun == fg.op = "applyPatches" /\ fg.pc \in {"checkout", "pick", "cleanup"}

SameTriple(e1, e2) ==
  e1.repo = e2.repo /\ e1.branch = e2.branch /\ e1.patch = e2.patch

\* C1: every patch a tracked branch of the record lists as needed is one of
\* the record's patches.
ReferentialIntegrity ==
  \A i \in 1..Len(file.doc.modifiedBranches) :
    Range(file.doc.modifiedBranches[i].neededPatches) \subseteq DocPatchRepos(file.doc)

\* A patch was removed while another one is still needed by a branch.
ReferentialIntegrityWitness ==
  /\ fg.op = "removePatch" /\ fg.pc = "resolved"
  /\ \E r \in PatchRepos : DocNeeds(file.doc, r)

\* C2 (as claimed): within an applyPatches run the candidates of a patch are
\* attempted in list order, each after the conflict of the one before, and
\* once a cherry-pick for a (branch, patch) succeeded no further candidate is
\* attempted for that (branch, patch).
FirstSuccessStops ==
  /\ \A i \in 1..Len(log) :
       \/ log[i].si = 1
       \/ /\ i > 1 /\ SameTriple(log[i - 1], log[i]) /\ log[i - 1].pi = log[i].pi
          /\ log[i - 1].si = log[i].si - 1 /\ log[i - 1].res = "conflict"
  /\ \A i \in 1..Len(log) : \A j \in (i + 1)..Len(log) :
       log[i].res = "ok" => ~SameTriple(log[i], log[j])

\* C3 (as claimed): in an applyPatches run, a patch whose cherry-pick succeeded
\* on a branch has its commit in the branch's changedDependencies, is no
\* longer in the branch's neededPatches, and has its message in the branch's
\* messages, which hold no string twice.
SuccessRecorded ==
  InRun =>
    \A i \in 1..Len(log) :
      log[i].res = "ok" =>
        LET b == fg.m.modifiedBranches[FindModifiedBranch(fg.m, log[i].repo, log[i].branch)]
            patch == FindPatch(fg.m, log[i].patch)
        IN  /\ log[i].patch \in Keys(b.changedDependencies)
            /\ ~Includes(b.neededPatches, patch)
            /\ Includes(b.messages, fg.m.objs[patch].message)
            /\ \A x \in 1..Len(b.messages) : \A y \in 1..Len(b.messages) :
                 b.messages[x] = b.messages[y] => x = y

\* The step in which the last candidate of a patch conflicts
Exhausts ==
  /\ fg.op = "applyPatches" /\ fg.pc = "pick"
  /\ fg.si = Len(PatchOf(fg).shas)
  /\ Len(log') = Len(log) + 1
  /\ log'[Len(log')].res = "conflict"

\* The step in which applyPatches resolves
Resolves == fg.pc \notin {"resolved", "rejected"} /\ fg'.op = "applyPatches" /\ fg'.pc = "resolved"

\* Every candidate of the patch at entry pi of the branch conflicted in the run logged
Exhausted(l, b, patchRepo, shas) ==
  \E pi \in 1..(MaxCmds + Cardinality(PatchRepos)) :
    \A si \in 1..Len(shas) :
      \E i \in 1..Len(l) :
        /\ l[i].repo = b.repo /\ l[i].branch = b.branch /\ l[i].patch = patchRepo
        /\ l[i].pi = pi /\ l[i].si = si /\ l[i].res = "conflict"

\* C4: when the last candidate of a patch conflicts, the patch stays in the
\* branch's neededPatches and the run is not rejected; and a run that resolves
\* has tried every candidate of every patch that a tracked branch still needs
\* (none was skipped because another patch or branch was exhausted).
ExhaustionContinues ==
  [][/\ Exhausts =>
          /\ fg'.pc # "rejected"
          /\ IF fg'.pc = "resolved"
             THEN Includes(file'.doc.modifiedBranches[fg.bi].neededPatches, PatchOf(fg).repo)
             ELSE Includes(fg'.m.modifiedBranches[fg.bi].neededPatches, fg.copy[fg.pi])
     /\ Resolves =>
          \A i \in 1..Len(file'.doc.modifiedBranches) :
            \A j \in 1..Len(file'.doc.modifiedBranches[i].neededPatches) :
              LET b == file'.doc.modifiedBranches[i]
                  k == CHOOSE k \in 1..Len(file'.doc.patches) :
                         file'.doc.patches[k].repo = b.neededPatches[j]
              IN  Exhausted(log', b, b.neededPatches[j], file'.doc.patches[k].shas)
    ]_vars

\* A patch of simA was exhausted, then another patch of simA and a patch of
\* simB were attempted in the same run.
ExhaustionContinuesWitness ==
  \E i \in 1..Len(log) : \E j \in (i + 1)..Len(log) : \E k \in (j + 1)..Len(log) :
    /\ log[i].res = "conflict" /\ log[i].repo = "simA"
    /\ log[j].repo = "simA" /\ log[j].patch # log[i].patch
    /\ log[k].repo = "simB"
    /\ \A x \in (i + 1)..Len(log) : ~(SameTriple(log[x], log[i]))

\* C5: when an external operation of the per-patch processing of applyPatches
\* throws, the record becomes the serialized Maintenance object of the run,
\* with the commit of every patch applied earlier in the run, and the run is
\* rejected without another attempt.
ThrowPersists ==
  [][(fg.op = "applyPatches" /\ fg.pc \in {"checkout", "pick"} /\ fg'.pc = "rejected") =>
       /\ file' = Save(fg.m)
       /\ \A t \in OkTriples(log) :
            \E i \in 1..Len(file'.doc.modifiedBranches) :
              /\ file'.doc.modifiedBranches[i].repo = t[1]
              /\ file'.doc.modifiedBranches[i].branch = t[2]
              /\ t[3] \in Keys(file'.doc.modifiedBranches[i].changedDependencies)
       /\ \A i \in 1..Len(log') : i > Len(log) => log'[i].res = "throw"
    ]_vars

\* A cherry-pick threw after an earlier patch of the run had been applied.
ThrowPersistsWitness ==
  /\ fg.op = "applyPatches" /\ fg.pc = "rejected"
  /\ \E i \in 1..Len(log) : \E j \in (i + 1)..Len(log) :
       log[i].res = "ok" /\ log[j].res = "throw"
  /\ \E i \in 1..Len(file.doc.modifiedBranches) :
       Keys(file.doc.modifiedBranches[i].changedDependencies) # {}

\* C6 (as claimed): whenever an external operation of applyPatches,
\* updateDependencies, deployReleaseCandidates or deployProduction fails and
\* the run is rejected, the record is the serialized Maintenance object of
\* the run at that moment.
FailurePersists ==
  [][(/\ fg.op \in {"applyPatches", "updateDependencies", "deployReleaseCandidates", "deployProduction"}
      /\ fg.pc \notin {"resolved", "rejected"}
      /\ fg'.pc = "rejected") => file' = Save(fg.m)]_vars

\* C7 (as claimed): no cherry-pick is attempted for a (branch, patch) that an
\* earlier run applied (and that was not linked or created again since).
AppliedNotRetried ==
  \A i \in 1..Len(log) : <<log[i].repo, log[i].branch, log[i].patch>> \notin applied

\* C8: removePatch(r) for a patch that some tracked branch needs is rejected
\* and leaves the record as it was; for a patch that no branch needs it
\* resolves, and the record then has no patch for r and is otherwise as it was.
RemovalGuard ==
  [][\A r \in PatchRepos :
       (AtPrompt /\ fg'.op = "removePatch" /\ fg'.args = <<r>> /\ r \in DocPatchRepos(file.doc)) =>
         IF DocNeeds(file.doc, r)
         THEN fg'.pc = "rejected" /\ file' = file
         ELSE /\ fg'.pc = "resolved"
              /\ DocPatchRepos(file'.doc) = DocPatchRepos(file.doc) \ {r}
              /\ Range(file'.doc.patches) \subseteq Range(file.doc.patches)
              /\ file'.doc.modifiedBranches = file.doc.modifiedBranches
    ]_vars

\* removePatch was rejected for a patch that a branch needs.
RemovalGuardWitness ==
  /\ fg.op = "removePatch" /\ fg.pc = "rejected"
  /\ fg.args[1] \in DocPatchRepos(file.doc)
  /\ DocNeeds(file.doc, fg.args[1])

\* C9: createPatch(r, m2) for a repo that has a patch is rejected and leaves
\* the record (the patch for r and everything else) as it was.
SecondCreateRejected ==
  [][\A r \in PatchRepos :
       (AtPrompt /\ fg'.op = "createPatch" /\ fg'.args[1] = r /\ r \in DocPatchRepos(file.doc)) =>
         (fg'.pc = "rejected" /\ file' = file)
    ]_vars

\* createPatch was rejected for a repo whose patch has another message and has shas.
SecondCreateRejectedWitness ==
  /\ fg.op = "createPatch" /\ fg.pc = "rejected"
  /\ \E k \in 1..Len(file.doc.patches) :
       /\ file.doc.patches[k].repo = fg.args[1]
       /\ file.doc.patches[k].message # fg.args[2]
       /\ Len(file.doc.patches[k].shas) > 0

\* C10: the record holds at most one patch per repo.
OnePatchPerRepo ==
  \A i \in 1..Len(file.doc.patches) : \A j \in 1..Len(file.doc.patches) :
    file.doc.patches[i].repo = file.doc.patches[j].repo => i = j

\* A second patch was created, for another repo.
OnePatchPerRepoWitness ==
  /\ fg.op = "createPatch" /\ fg.pc = "resolved"
  /\ Len(file.doc.patches) = 2

\* The tracked branches of a record for (repo, branch)
DocBranches(doc, repo, branch) ==
  {i \in 1..Len(doc.modifiedBranches) :
     doc.modifiedBranches[i].repo = repo /\ doc.modifiedBranches[i].branch = branch}

\* C11 (as claimed): removeNeededPatch of the only patch a tracked branch
\* needs, when the branch has no changed dependency, resolves and the record
\* no longer tracks the branch.
UnusedBranchCollected ==
  [][\A b \in BranchInputs, r \in PatchRepos :
       (/\ AtPrompt
        /\ fg'.op = "removeNeededPatch" /\ fg'.args = <<b[1], b[2], r>>
        /\ \E i \in DocBranches(file.doc, b[1], b[2]) :
             /\ file.doc.modifiedBranches[i].neededPatches = <<r>>
             /\ Keys(file.doc.modifiedBranches[i].changedDependencies) = {}) =>
         (fg'.pc = "resolved" /\ DocBranches(file'.doc, b[1], b[2]) = {})
    ]_vars

\* C12 (as claimed): no branch the record tracks is unused (without needed
\* patches and without changed dependencies).
TrackedBranchesHaveWork ==
  \A i \in 1..Len(file.doc.modifiedBranches) :
    \/ Len(file.doc.modifiedBranches[i].neededPatches) > 0
    \/ Keys(file.doc.modifiedBranches[i].changedDependencies) # {}

\* The object graph of a Maintenance object: the patches in order, and the
\* branches with each neededPatches entry written as the position in patches
\* of the Patch object it refers to (0: an object that is not in patches).
Graph(m) ==
  [patches |-> [i \in 1..Len(m.patches) |-> m.objs[m.patches[i]]],
   modifiedBranches |->
     [i \in 1..Len(m.modifiedBranches) |->
        [m.modifiedBranches[i] EXCEPT
           !.neededPatches = [j \in 1..Len(@) |-> IndexOf(m.patches, @[j])]]]]

\* The Maintenance objects in memory: the one of the command in progress and
\* the ones of the background calls
InMemory ==
  (IF fg.pc \in {"idle", "resolved", "rejected"} THEN {} ELSE {fg.m})
    \cup {bg[t].m : t \in 1..Len(bg)}

\* l is a graph equal to that of m whose neededPatches entries are Patch
\* objects of its patches, so that a sha pushed on a patch of l is seen
\* through every branch that needs the patch.
SameSharedGraph(m, l) ==
  /\ Graph(l) = Graph(m)
  /\ \A i \in 1..Len(l.modifiedBranches) :
       \A j \in 1..Len(l.modifiedBranches[i].neededPatches) :
         LET ref == l.modifiedBranches[i].neededPatches[j]
         IN  /\ Includes(l.patches, ref)
             /\ \A sha \in Shas :
                  Includes(PushSHA(l, ref, sha).objs[ref].shas, sha)

\* save() then load() of m
RoundTrips(m) == SameSharedGraph(m, Load(Save(m)))

\* C13: save() followed by load() reproduces the graph of every Maintenance
\* object, with the neededPatches entries shared with patches; and load()
\* followed by save() reproduces the record.
RoundTripPersistence ==
  /\ \A m \in InMemory : RoundTrips(m)
  /\ file.exists => Save(Load(file)) = file

\* applyPatches is in progress on an object it has changed since the load, in
\* which two branches need the same patch.
RoundTripPersistenceWitness ==
  /\ InRun /\ file.exists
  /\ Graph(fg.m) # Graph(Load(file))
  /\ \E i, j \in 1..Len(fg.m.modifiedBranches) :
       /\ i # j
       /\ \E x \in 1..Len(fg.m.modifiedBranches[i].neededPatches) :
            Includes(fg.m.modifiedBranches[j].neededPatches,
                     fg.m.modifiedBranches[i].neededPatches[x])

\* The number of entries of a neededPatches array of a record that name r
Linkages(needed, r) == Cardinality({j \in 1..Len(needed) : needed[j] = r})

\* C14 (as claimed): when addAllNeededPatches(p) has been called twice in a
\* row for a patch of the record and all the work it started has finished,
\* the record tracks every release branch once and lists p exactly once in
\* its neededPatches.
BulkAddIdempotent ==
  (/\ fg.op = "addAllNeededPatches" /\ fg.pc = "resolved"
   /\ prev = fg.args[1] /\ bg = <<>>
   /\ fg.args[1] \in DocPatchRepos(file.doc)) =>
    \A k \in 1..Len(ReleaseBranches) :
      LET tracked == DocBranches(file.doc, ReleaseBranches[k].repo, ReleaseBranches[k].branch)
      IN  /\ Cardinality(tracked) = 1
          /\ \A i \in tracked :
               Linkages(file.doc.modifiedBranches[i].neededPatches, fg.args[1]) = 1

\* C15 (as claimed): once the promise of a command has resolved, the record
\* shows its effect: the patch createPatch created, the sha addPatchSHA added,
\* the linkage addNeededPatch added, and for addAllNeededPatches of a patch of
\* the record a linkage on every release branch.
ResolvedIsPersisted ==
  fg.pc = "resolved" =>
    /\ fg.op = "createPatch" => fg.args[1] \in DocPatchRepos(file.doc)
    /\ fg.op = "addPatchSHA" =>
         \E k \in 1..Len(file.doc.patches) :
           file.doc.patches[k].repo = fg.args[1] /\ Includes(file.doc.patches[k].shas, fg.args[2])
    /\ fg.op = "addNeededPatch" =>
         \E i \in DocBranches(file.doc, fg.args[1], fg.args[2]) :
           Includes(file.doc.modifiedBranches[i].neededPatches, fg.args[3])
    /\ (fg.op = "addAllNeededPatches" /\ fg.args[1] \in DocPatchRepos(file.doc)) =>
         \A k \in 1..Len(ReleaseBranches) :
           \E i \in DocBranches(file.doc, ReleaseBranches[k].repo, ReleaseBranches[k].branch) :
             Includes(file.doc.modifiedBranches[i].neededPatches, fg.args[1])

\* A command is between its load() and its last save()
InProgress == fg.pc \notin {"idle", "resolved", "rejected"}

\* C16 (as claimed): while a command is between its load() and its save(),
\* no other call is (no addNeededPatches call started by an earlier command
\* is still running).
CommandsInSequence == InProgress => bg = <<>>

\* C17 (as claimed): when applyPatches or updateDependencies has returned or
\* thrown, every repository it checked out off master is back on master.
WorkingCopiesRestored ==
  (fg.op \in {"applyPatches", "updateDependencies"} /\ fg.pc \in {"resolved", "rejected"}) =>
    dirty = {}

\* C18: applyPatches leaves a tracked branch (for the next one, or to save
\* and resolve) only by the checkout of master of the branch's repository
\* that follows its patches, with that repository on master.
CleanupBetweenBranches ==
  [][(/\ fg.op = "applyPatches" /\ InProgress
      /\ fg'.op = "applyPatches"
      /\ (fg'.pc = "resolved" \/ (fg'.pc # "rejected" /\ fg'.bi # fg.bi))) =>
       (fg.pc = "cleanup" /\ Branch(fg).repo \notin dirty')
    ]_vars

\* The run is at the second branch, after a patch of the first one was
\* applied and another one was exhausted.
CleanupBetweenBranchesWitness ==
  /\ InRun /\ fg.bi = 2
  /\ \E i, j \in 1..Len(log) :
       /\ log[i].repo = fg.m.modifiedBranches[1].repo /\ log[i].res = "ok"
       /\ log[j].repo = fg.m.modifiedBranches[1].repo /\ log[j].res = "conflict"
       /\ log[j].patch # log[i].patch

\* C19 (as claimed): when updateDependencies fails on a branch, before the
\* build and the dependencies.json update of the branch have completed, the
\* record still has changed dependencies for the branch, so that a later run
\* does not skip it.
FailedBranchStaysPending ==
  [][(/\ fg.op = "updateDependencies" /\ fg.pc \in {"propagate", "build", "json"}
      /\ fg'.pc = "rejected") =>
       Keys(file'.doc.modifiedBranches[fg.bi].changedDependencies) # {}
    ]_vars

\* C20: in updateDependencies a changedDependencies entry is deleted only by
\* the step in which its propagation succeeded, which deletes that entry
\* alone and unsets the branch's deployedVersion; a failing step deletes
\* nothing, and the record it saves still has the entry whose propagation
\* failed.
ClearedAfterPropagation ==
  [][(fg.op = "updateDependencies" /\ InProgress) =>
       LET b == fg.m.modifiedBranches[fg.bi]
           propagates == fg.pc = "propagate" /\ fg'.pi = fg.pi + 1
       IN  /\ propagates =>
                /\ Keys(fg'.m.modifiedBranches[fg.bi].changedDependencies) =
                     Keys(b.changedDependencies) \ {fg.copy[fg.pi]}
                /\ fg'.m.modifiedBranches[fg.bi].deployedVersion = "null"
                /\ \A i \in 1..Len(fg.m.modifiedBranches) :
                     i # fg.bi => fg'.m.modifiedBranches[i] = fg.m.modifiedBranches[i]
           /\ (~propagates /\ fg'.pc \notin {"resolved", "rejected"}) =>
                fg'.m.modifiedBranches = fg.m.modifiedBranches
           /\ fg'.pc \in {"resolved", "rejected"} => file' = Save(fg.m)
           /\ (fg.pc = "propagate" /\ fg'.pc = "rejected") =>
                fg.copy[fg.pi] \in Keys(file'.doc.modifiedBranches[fg.bi].changedDependencies)
    ]_vars

\* updateDependencies failed at the second dependency of the first of two
\* deployed branches: the record has the first entry cleared, the second one
\* kept and the deployed version of the branch unset.
ClearedAfterPropagationWitness ==
  /\ fg.op = "updateDependencies" /\ fg.pc = "rejected"
  /\ \E i \in 1..Len(file.doc.modifiedBranches) :
       /\ Cardinality(Keys(file.doc.modifiedBranches[i].changedDependencies)) = 1
       /\ Len(file.doc.modifiedBranches[i].messages) = 2
       /\ file.doc.modifiedBranches[i].deployedVersion = "null"
  /\ \E j \in 1..Len(file.doc.modifiedBranches) :
       file.doc.modifiedBranches[j].deployedVersion = RcVersion

\* The step in which the command in progress settles as rejected
Throws == InProgress /\ fg'.pc = "rejected"

\* The tracked branches of the record the command in progress loaded
LoadedBranches == Serialize(fg.loaded).modifiedBranches

DeployOps == {"deployReleaseCandidates", "deployProduction"}

DeployedVersionOf(op) ==
  IF op = "deployReleaseCandidates" THEN RcVersion ELSE ProductionVersion

\* C21: when updateDependencies fails at a branch it has saved its Maintenance
\* object: in the record the branches before the failing one have no changed
\* dependency left, and the branches after it are as they were loaded.
FailurePersistsPropagation ==
  [][(fg.op = "updateDependencies" /\ Throws) =>
       /\ file' = Save(fg.m)
       /\ Len(file'.doc.modifiedBranches) = Len(LoadedBranches)
       /\ \A i \in 1..Len(LoadedBranches) :
            /\ i < fg.bi => Keys(file'.doc.modifiedBranches[i].changedDependencies) = {}
            /\ i > fg.bi => file'.doc.modifiedBranches[i] = LoadedBranches[i]
    ]_vars

\* updateDependencies failed at the second of two deployed branches after it
\* had propagated both changed dependencies of the first one.
FailurePersistsPropagationWitness ==
  /\ fg.op = "updateDependencies" /\ fg.pc = "rejected"
  /\ Len(file.doc.modifiedBranches) = 2
  /\ Keys(file.doc.modifiedBranches[1].changedDependencies) = {}
  /\ Len(file.doc.modifiedBranches[1].messages) = 2
  /\ file.doc.modifiedBranches[1].deployedVersion = "null"
  /\ Keys(file.doc.modifiedBranches[2].changedDependencies) # {}
  /\ file.doc.modifiedBranches[2].deployedVersion = RcVersion

\* C22: a successful deploy of a branch changes that branch only: a
\* production deploy sets its deployedVersion to the returned version and
\* empties its messages, a release-candidate deploy sets its deployedVersion
\* to the returned version and leaves its messages as they are.
DeployRecordsVersion ==
  [][(fg.op \in DeployOps /\ fg.pc = "deploy" /\ fg'.pc # "rejected" /\ fg' # fg) =>
       LET before == Serialize(fg.m)
           after == IF fg'.pc = "resolved" THEN file'.doc ELSE Serialize(fg'.m)
           b == before.modifiedBranches[fg.bi]
       IN  /\ after.patches = before.patches
           /\ Len(after.modifiedBranches) = Len(before.modifiedBranches)
           /\ \A i \in 1..Len(before.modifiedBranches) :
                i # fg.bi => after.modifiedBranches[i] = before.modifiedBranches[i]
           /\ after.modifiedBranches[fg.bi] =
                IF fg.op = "deployProduction"
                THEN [b EXCEPT !.deployedVersion = ProductionVersion, !.messages = <<>>]
                ELSE [b EXCEPT !.deployedVersion = RcVersion]
    ]_vars

\* deployProduction resolved for a branch that had a release candidate with
\* messages: it is at the production version and has no message.
DeployRecordsVersionWitness ==
  /\ fg.op = "deployProduction" /\ fg.pc = "resolved"
  /\ budget = MaxResumed - 1
  /\ \E i \in 1..Len(file.doc.modifiedBranches) :
       /\ file.doc.modifiedBranches[i].deployedVersion = ProductionVersion
       /\ file.doc.modifiedBranches[i].messages = <<>>
       /\ Keys(file.doc.modifiedBranches[i].changedDependencies) # {}

\* C23: when rc() or production() fails for a branch the pass has saved its
\* Maintenance object and rejects: in the record the ready branches before
\* the failing one are at the returned version, the failing branch and the
\* branches after it are as they were loaded.
DeployFailureAborts ==
  [][(fg.op \in DeployOps /\ Throws) =>
       /\ file' = Save(fg.m)
       /\ Len(file'.doc.modifiedBranches) = Len(LoadedBranches)
       /\ \A i \in 1..Len(LoadedBranches) :
            /\ (i < fg.bi /\ IsReady(fg.op, fg.loaded.modifiedBranches[i])) =>
                 file'.doc.modifiedBranches[i].deployedVersion = DeployedVersionOf(fg.op)
            /\ i >= fg.bi => file'.doc.modifiedBranches[i] = LoadedBranches[i]
    ]_vars

\* deployProduction failed at the second of two release candidates: the first
\* one is at the production version, the second one still a release candidate.
DeployFailureAbortsWitness ==
  /\ fg.op = "deployProduction" /\ fg.pc = "rejected"
  /\ Len(file.doc.modifiedBranches) = 2
  /\ file.doc.modifiedBranches[1].deployedVersion = ProductionVersion
  /\ file.doc.modifiedBranches[1].messages = <<>>
  /\ file.doc.modifiedBranches[2].deployedVersion = RcVersion
  /\ Len(file.doc.modifiedBranches[2].messages) > 0

\* C24: rc() and production() are called only for a branch that needs no
\* patch and has messages or changed dependencies.
DeployOnlyWhenReady ==
  (fg.op \in DeployOps /\ fg.pc = "deploy") =>
    /\ Len(Branch(fg).neededPatches) = 0
    /\ (Len(Branch(fg).messages) > 0 \/ Keys(Branch(fg).changedDependencies) # {})

\* A deploy is at the second tracked branch, having skipped the first one,
\* which still needs a patch.
DeployOnlyWhenReadyWitness ==
  /\ fg.op \in DeployOps /\ fg.pc = "deploy" /\ fg.bi = 2
  /\ Len(fg.m.modifiedBranches[1].neededPatches) > 0
  /\ fg.m.modifiedBranches[1].deployedVersion = "null"

ValidatedOps ==
  {"createPatch", "removePatch", "addPatchSHA", "removePatchSHA",
   "addNeededPatch", "removeNeededPatch"}

\* C25 (as claimed): when createPatch, removePatch, addPatchSHA,
\* removePatchSHA, addNeededPatch or removeNeededPatch fails, the record is
\* the one there was when the command was called.
RejectedLeavesRecord ==
  [][(fg.pc # "rejected" /\ fg'.pc = "rejected" /\ fg'.op \in ValidatedOps) =>
       file' = IF fg.op = "idle" THEN file ELSE Save(fg.loaded)
    ]_vars

BulkOps ==
  {"addAllNeededPatches", "addNeededPatchesBefore", "addNeededPatchesAfter",
   "removeNeededPatchesBefore", "removeNeededPatchesAfter"}

\* C26 (as claimed): a bulk command called for a patchRepo that has no patch
\* (findPatch throws in the addNeededPatches / removeNeededPatches it
\* calls) rejects.
FailuresSurface ==
  [][(fg.op = "idle" /\ fg'.op \in BulkOps /\ FindPatch(Load(file), fg'.args[1]) = 0) =>
       fg'.pc = "rejected"
    ]_vars

\* m1 is m with patch linked to the release branches the filter answered
\* true for, and nothing else changed: such a branch is tracked in m1 (by a
\* fresh ModifiedBranch when m did not track it) and lists the patch after
\* what it needed before, unless it listed it already; a branch the filter
\* answered false for is tracked in m1 where it was in m, unchanged.
LinkedExactly(m, m1, patch, answers) ==
  LET Tracked(x, i) == FindModifiedBranch(x, ReleaseBranches[i].repo, ReleaseBranches[i].branch)
      created == {i \in 1..Len(ReleaseBranches) : answers[i] /\ Tracked(m, i) = 0}
  IN  /\ m1.objs = m.objs /\ m1.patches = m.patches
      /\ Len(m1.modifiedBranches) = Len(m.modifiedBranches) + Cardinality(created)
      /\ \A i \in 1..Len(ReleaseBranches) :
           LET k == Tracked(m, i)
               k1 == Tracked(m1, i)
           IN  IF answers[i]
               THEN /\ k1 # 0
                    /\ k # 0 => k1 = k
                    /\ m1.modifiedBranches[k1] =
                         IF k = 0
                         THEN [NewModifiedBranch(ReleaseBranches[i]) EXCEPT !.neededPatches = <<patch>>]
                         ELSE IF Includes(m.modifiedBranches[k].neededPatches, patch)
                         THEN m.modifiedBranches[k]
                         ELSE [m.modifiedBranches[k] EXCEPT !.neededPatches = Append(@, patch)]
               ELSE /\ k1 = k
                    /\ k # 0 => m1.modifiedBranches[k] = m.modifiedBranches[k]

\* C27: whatever the filter answers for the release branches, the loop of a
\* running addNeededPatches links the patch to exactly the branches of the
\* true answers, creating their ModifiedBranch when untracked and skipping
\* those that list the patch, and leaves the other branches as they are,
\* tracked or not.
BulkAddLinksExactly ==
  \A t \in 1..Len(bg) :
    \A answers \in [1..Len(ReleaseBranches) -> BOOLEAN] :
      LinkedExactly(bg[t].m, AddNeededPatchesLoop(bg[t].m, bg[t].patch, answers, 1),
                    bg[t].patch, answers)

\* Starting without a record, createPatch and then addNeededPatchesBefore or
\* addNeededPatchesAfter whose filter answered true for one of the two
\* release branches: the record tracks that branch only, needing the patch.
BulkAddLinksExactlyWitness ==
  /\ fg.op \in {"addNeededPatchesBefore", "addNeededPatchesAfter"} /\ bg = <<>>
  /\ budget = MaxCmds - 2
  /\ Len(file.doc.patches) = 1
  /\ fg.args[1] = file.doc.patches[1].repo
  /\ Len(file.doc.modifiedBranches) = 1
  /\ file.doc.modifiedBranches[1].neededPatches = <<file.doc.patches[1].repo>>

\* C28 (as claimed): whatever the filter answers for the tracked branches, a
\* removeNeededPatchesBefore / removeNeededPatchesAfter that saves has left
\* the neededPatches of every branch of a false answer unchanged.
BulkRemoveFollowsFilter ==
  [][(/\ fg.op = "idle" /\ budget' < budget
      /\ fg'.op \in {"removeNeededPatchesBefore", "removeNeededPatchesAfter"}) =>
       \A answers \in [1..Len(file.doc.modifiedBranches) -> BOOLEAN] :
         \A k \in 1..Len(file.doc.modifiedBranches) :
           ~answers[k] =>
             /\ k <= Len(file'.doc.modifiedBranches)
             /\ file'.doc.modifiedBranches[k].neededPatches =
                  file.doc.modifiedBranches[k].neededPatches
    ]_vars

\* C29 (as claimed): in the record applyPatches saves when it resolves, a
\* branch on which the run applied a cherry-pick (its changedDependencies
\* got the new commit) has no deployedVersion.
DependencyChangeClearsVersion ==
  [][Resolves =>
       \A j \in 1..Len(log') :
         log'[j].res = "ok" =>
           \A i \in DocBranches(file'.doc, log'[j].repo, log'[j].branch) :
             /\ log'[j].patch \in Keys(file'.doc.modifiedBranches[i].changedDependencies)
             /\ file'.doc.modifiedBranches[i].deployedVersion = "null"
    ]_vars

\* No tracked branch of the record lists a patch twice
NeedsAreSets(doc) ==
  \A i \in 1..Len(doc.modifiedBranches) :
    \A r \in PatchRepos : Linkages(doc.modifiedBranches[i].neededPatches, r) <= 1

\* C30 (as claimed): neededPatches stays a set: no step writes a record in
\* which a branch lists a patch twice over a record in which none does.
NeededPatchesIsSet ==
  [][NeedsAreSets(file.doc) => NeedsAreSets(file'.doc)]_vars

\* The tracked branches of a record or Maintenance object have distinct
\* (repo, branch)
KeyedByRepoAndBranch(branches) ==
  \A i, j \in 1..Len(branches) :
    (branches[i].repo = branches[j].repo /\ branches[i].branch = branches[j].branch) => i = j

\* C31: the record, the Maintenance object of the command in progress and
\* those of the running addNeededPatches calls track each (repo, branch) at
\* most once; addNeededPatch for a tracked branch adds no ModifiedBranch; and
\* checkoutBranch (errorIfMissing) for an untracked one rejects and leaves the
\* record as it is.
TrackedOncePerBranch ==
  /\ [](/\ KeyedByRepoAndBranch(file.doc.modifiedBranches)
        /\ KeyedByRepoAndBranch(fg.m.modifiedBranches)
        /\ \A t \in 1..Len(bg) : KeyedByRepoAndBranch(bg[t].m.modifiedBranches))
  /\ [][(fg.op = "idle" /\ fg'.op = "addNeededPatch" /\ fg'.pc = "resolved") =>
          Len(file'.doc.modifiedBranches) = Len(file.doc.modifiedBranches)]_vars
  /\ [][(/\ fg.op = "idle" /\ fg'.op = "checkoutBranch"
         /\ DocBranches(file.doc, fg'.args[1], fg'.args[2]) = {}) =>
          (fg'.pc = "rejected" /\ file' = file)]_vars

\* addNeededPatch resolved for a branch that was tracked and needed two
\* patches: it is tracked once and needs three.
TrackedOncePerBranchWitness ==
  /\ fg.op = "addNeededPatch" /\ fg.pc = "resolved"
  /\ \E i \in DocBranches(file.doc, fg.args[1], fg.args[2]) :
       Len(file.doc.modifiedBranches[i].neededPatches) = 3
  /\ Len(file.doc.modifiedBranches) = 2

\* C32: in updateDependencies the build of a branch starts only when every
\* changed dependency the branch had on entry has been propagated (its entry
\* deleted), dependencies.json is written only after the build succeeded and
\* is what changes the declared dependencies, and the working copies of the
\* branch are restored, and the branch left, only after that write.
BuildAfterPropagation ==
  [][(fg.op = "updateDependencies" /\ InProgress /\ fg' # fg) =>
       /\ fg'.pc = "build" =>
            /\ fg.pc = "propagate"
            /\ Keys(fg'.m.modifiedBranches[fg.bi].changedDependencies) \cap Range(fg.copy) = {}
       /\ fg'.pc = "json" => fg.pc = "build"
       /\ fg'.pc = "restore" => fg.pc = "json"
       /\ declared' # declared => (fg.pc = "json" /\ fg'.pc = "restore")
       /\ (fg'.pc = "resolved" \/ (fg'.pc = "propagate" /\ fg'.bi # fg.bi)) =>
            /\ fg.pc = "restore"
            /\ dirty' \cap TargetRepos(fg.m.modifiedBranches[fg.bi].repo) = {}
       /\ (dirty \cap TargetRepos(fg.m.modifiedBranches[fg.bi].repo) # {}
           /\ dirty' \cap TargetRepos(fg.m.modifiedBranches[fg.bi].repo) = {}) =>
            fg.pc = "restore"
    ]_vars

\* updateDependencies is at the dependencies.json write of the second branch,
\* after the two changed dependencies of the first one were propagated, built
\* and declared.
BuildAfterPropagationWitness ==
  /\ fg.op = "updateDependencies" /\ fg.pc = "json" /\ fg.bi = 2
  /\ Len(fg.loaded.modifiedBranches[1].changedDependencies) = 2
  /\ \A r \in PatchRepos : declared[<<"simA", "1.0">>][r] # ReleasedSHA

\* C34 (as claimed): when addAllNeededPatches( p ) was awaited, then
\* createPatch (of another patch) or addPatchSHA was awaited and has resolved, and all the work
\* they started has finished, the record has the patch or sha of the second
\* command and, p being a patch of the record, p linked on every release
\* branch.
NoLostUpdate ==
  (/\ prev # "none" /\ bg = <<>> /\ fg.pc = "resolved"
   /\ fg.op \in {"createPatch", "addPatchSHA"}
   /\ fg.op = "createPatch" => fg.args[1] # prev) =>
    /\ fg.args[1] \in DocPatchRepos(file.doc)
    /\ fg.op = "addPatchSHA" =>
         \A k \in 1..Len(file.doc.patches) :
           file.doc.patches[k].repo = fg.args[1] => Includes(file.doc.patches[k].shas, fg.args[2])
    /\ prev \in DocPatchRepos(file.doc) =>
         \A k \in 1..Len(ReleaseBranches) :
           \E i \in DocBranches(file.doc, ReleaseBranches[k].repo, ReleaseBranches[k].branch) :
             Includes(file.doc.modifiedBranches[i].neededPatches, prev)

\* The commit a cherry-pick for dependency r on release branch rb would start
\* from, given the record doc and the declared dependencies d (lines 634-647)
BaseCommit(doc, d, rb, r) ==
  LET tracked == DocBranches(doc, rb.repo, rb.branch)
  IN  IF \E i \in tracked : r \in Keys(doc.modifiedBranches[i].changedDependencies)
      THEN GetKey(doc.modifiedBranches[CHOOSE i \in tracked :
                     r \in Keys(doc.modifiedBranches[i].changedDependencies)].changedDependencies, r)
      ELSE d[<<rb.repo, rb.branch>>][r]

\* C35 (as claimed): the commit a later patch for a dependency would be
\* cherry-picked onto never loses a fix: no step of applyPatches or
\* updateDependencies, failing or not, leaves the record and the declared
\* dependencies such that this commit lacks a sha it contained.
FixesAreKept ==
  [][(fg.op \in {"applyPatches", "updateDependencies"} /\ InProgress /\ fg' # fg) =>
       \A k \in 1..Len(ReleaseBranches), r \in PatchRepos :
         Range(BaseCommit(file.doc, declared, ReleaseBranches[k], r)) \subseteq
           Range(BaseCommit(file'.doc, declared', ReleaseBranches[k], r))
    ]_vars

\* C36 (as claimed): no branch is handed to the deploy operation, release
\* candidate or production, while it still has entries in
\* changedDependencies.
NoDeployWithChangedDependencies ==
  (fg.op \in DeployOps /\ fg.pc = "deploy") =>
    Keys(Branch(fg).changedDependencies) = {}

\* C33 (as claimed): when a step of the build-server task fails, the build
\* aborts (the task's promise is rejected) and checkout-master-all has been
\* run by the time the task is over.
FailedStepAbortsToMaster ==
  (TaskOver /\ task.failed \in StepNames) =>
    task.promise = "rejected" /\ task.masters >= 1

\* C37 (as claimed): every build-server task eventually invokes taskCallback.
TaskCallbackEventually == <>(task.callbacks >= 1)

\* C38 (as claimed): taskCallback is invoked at most once per task.
TaskCallbackAtMostOnce == task.callbacks <= 1

\* C39 (as claimed): when puppeteerLoad returns, a browser it launched is
\* closed and a browser the caller supplied is still open; when it returns
\* or throws, the page it opened is closed.
BrowserAndPageLifecycle ==
  /\ load.pc = "returned" =>
       /\ ~load.hasBrowser => load.launched = "closed"
       /\ load.hasBrowser => load.persistent = "open"
  /\ load.pc \in {"returned", "thrown"} => load.page # "open"

\* C40 (as claimed): print-missing-repos.sh prints exactly the names of the
\* list file that are not in the directory listing.
PrintsListMinusDirectory ==
  listing.pc = "done" =>
    Range(listing.out) = {listing.file[i].name : i \in 1..Len(listing.file)} \ listing.dir

====
